---- MODULE Spec2Model ----
(***************************************************************************)
(* Model of the anti-turing-test scoring pipeline: the POST /api/analyze   *)
(* request handler, the local scorers it calls, the five LLM-backed judges *)
(* and the time-perception judge, the aggregation and classification, and  *)
(* the write of the result to the durable store with its in-memory         *)
(* fallback.                                                               *)
(*                                                                         *)
(* Numbers.  JavaScript doubles are modelled as fixed-point integers in    *)
(* units of 1/Scale, rounded down; NaN is a value of its own that every    *)
(* arithmetic operation propagates and every comparison rejects.           *)
(*                                                                         *)
(* Text.  A string is a sequence of atoms.  An atom is a short piece of    *)
(* text with a known length and one character class: a run of letters, a   *)
(* run of digits, white space, a sentence terminator (. ! ?) or other      *)
(* punctuation.  The string operations of the code (split, trim, length,   *)
(* toLowerCase, includes, the regular expressions, the word tokenizer) are *)
(* defined on atom sequences.                                              *)
(***************************************************************************)
EXTENDS Integers, Sequences, FiniteSets, TLC

\* ------------------------------------------------------------------ numbers

Scale == 10^4

\* The IEEE not-a-number value (0/0), kept apart from every score.
NaN == 0 - 10^9

IsNaN(x) == x = NaN

\* a + b
Add(a, b) == IF IsNaN(a) \/ IsNaN(b) THEN NaN ELSE a + b

\* a - b
Sub(a, b) == IF IsNaN(a) \/ IsNaN(b) THEN NaN ELSE a - b

\* x * (w/100), w a weight given in hundredths
MulW(x, w) == IF IsNaN(x) THEN NaN ELSE (x * w) \div 100

\* n / d for two counts; 0/0 is NaN
Ratio(n, d) == IF d = 0 THEN NaN ELSE (n * Scale) \div d

\* x / (w/100), a fixed-point value divided by a constant given in hundredths
DivW(x, w) == IF IsNaN(x) THEN NaN ELSE (x * 100) \div w

\* Math.min and Math.max: NaN when either argument is NaN
MathMin(a, b) == IF IsNaN(a) \/ IsNaN(b) THEN NaN ELSE IF a <= b THEN a ELSE b

MathMax(a, b) == IF IsNaN(a) \/ IsNaN(b) THEN NaN ELSE IF a >= b THEN a ELSE b

\* a >= b and a <= b of JavaScript: false when either side is NaN
Ge(a, b) == ~IsNaN(a) /\ ~IsNaN(b) /\ a >= b

Le(a, b) == ~IsNaN(a) /\ ~IsNaN(b) /\ a <= b

\* A number of the closed interval [0,1]
InUnit(x) == ~IsNaN(x) /\ 0 <= x /\ x <= Scale

RECURSIVE ISqrtBetween(_, _, _)
ISqrtBetween(n, lo, hi) ==
    IF lo >= hi THEN lo
    ELSE LET mid == (lo + hi + 1) \div 2
         IN  IF mid * mid <= n THEN ISqrtBetween(n, mid, hi)
             ELSE ISqrtBetween(n, lo, mid - 1)

\* floor(sqrt(n)) for 0 <= n < 2^30
ISqrt(n) == ISqrtBetween(n, 0, 32767)

\* Math.sqrt(x) of a fixed-point value
MathSqrt(x) == IF IsNaN(x) \/ x < 0 THEN NaN ELSE ISqrt(x * Scale)

\* Math.pow(x, 1.5) of a fixed-point value in [0,1]: x * sqrt(x)
Pow15(x) == IF IsNaN(x) \/ x < 0 THEN NaN ELSE (x * ISqrt(x * Scale)) \div Scale

RECURSIVE SumSeq(_)
SumSeq(s) == IF s = <<>> THEN 0 ELSE Head(s) + SumSeq(Tail(s))

\* ------------------------------------------------------------------ text

Letters == {"cat", "Cats", "dog", "the", "theory", "however", "recently", "last",
            "week", "good", "bad", "Meeting", "at", "on", "constructor", "Recently",
            "w50", "w150", "w250"}

Digits == {"5", "14", "30", "12", "05", "2024", "123"}

Spaces == {" "}

Terminators == {".", "!", "?"}

Puncts == {":", "/", "-", ",", "dash150"}

Atoms == Letters \cup Digits \cup Spaces \cup Terminators \cup Puncts

\* The number of characters of an atom.
AtomLen(a) ==
    CASE a \in {"w150", "dash150"} -> 150
      [] a = "w250" -> 250
      [] a = "w50" -> 50
      [] a = "constructor" -> 11
      [] a \in {"recently", "Recently"} -> 8
      [] a \in {"however", "Meeting"} -> 7
      [] a \in {"theory"} -> 6
      [] a \in {"Cats", "last", "week", "good", "2024"} -> 4
      [] a \in {"cat", "dog", "the", "bad", "123"} -> 3
      [] a \in {"at", "on", "14", "30", "12", "05"} -> 2
      [] OTHER -> 1

\* String.prototype.length
StrLen(s) == SumSeq([i \in 1..Len(s) |-> AtomLen(s[i])])

\* A character of [A-Za-z0-9_]
IsWordAtom(a) == a \in Letters \cup Digits

\* String.prototype.toLowerCase on one atom
LowerAtom(a) ==
    CASE a = "Cats" -> "cats"
      [] a = "Meeting" -> "meeting"
      [] a = "Recently" -> "recently"
      [] OTHER -> a

ToLowerCase(s) == [i \in 1..Len(s) |-> LowerAtom(s[i])]

\* s.trim().length > 0
TrimNonEmpty(s) == \E i \in 1..Len(s) : s[i] \notin Spaces

RECURSIVE SplitOn(_, _, _)
\* The pieces of s between the atoms of seps, left to right (cur is the piece
\* being read).
SplitOn(s, seps, cur) ==
    IF s = <<>> THEN <<cur>>
    ELSE IF Head(s) \in seps THEN <<cur>> \o SplitOn(Tail(s), seps, <<>>)
    ELSE SplitOn(Tail(s), seps, Append(cur, Head(s)))

\* text.split(/[.!?]+/).filter(s => s.trim().length > 0)
Sentences(text) == SelectSeq(SplitOn(text, Terminators, <<>>), TrimNonEmpty)

\* natural.WordTokenizer.tokenize: the maximal runs of word characters
Tokenize(s) ==
    SelectSeq(SplitOn(s, Atoms \ (Letters \cup Digits), <<>>), LAMBDA t : t # <<>>)

\* ------------------------------------------------------------------ segments

SegmentLimit == 200

RECURSIVE GroupSegments(_, _, _)
\* The loop that groups the sentences into segments; segs are the segments
\* pushed so far and cur is currentSegment.
GroupSegments(sentences, segs, cur) ==
    IF sentences = <<>>
    THEN IF cur # <<>> THEN Append(segs, cur) ELSE segs
    ELSE LET sentence == Head(sentences)
         IN  IF StrLen(cur) + StrLen(sentence) > SegmentLimit
             THEN GroupSegments(Tail(sentences), Append(segs, cur), sentence)
             ELSE GroupSegments(Tail(sentences), segs,
                      cur \o (IF cur # <<>> THEN <<" ">> ELSE <<>>) \o sentence)

TextSegments(text) == GroupSegments(Sentences(text), <<>>, <<>>)

\* ------------------------------------------------------------------ terms

\* natural.PorterStemmer.stem on a lower-cased one-atom word
StemAtom(a) ==
    CASE a = "cats" -> "cat"
      [] a = "theory" -> "theori"
      [] a = "however" -> "howev"
      [] a = "recently" -> "recent"
      [] a = "meeting" -> "meet"
      [] OTHER -> a

\* stemmer.stem(token.toLowerCase())
Stem(token) ==
    IF Len(token) = 1 THEN <<StemAtom(LowerAtom(token[1]))>> ELSE ToLowerCase(token)

StemAll(tokens) == [i \in 1..Len(tokens) |-> Stem(tokens[i])]

\* The number of positions of seq that hold x
CountOf(x, seq) == Cardinality({i \in 1..Len(seq) : seq[i] = x})

RECURSIVE Distinct(_, _)
\* The distinct elements of seq in the order of their first occurrence
Distinct(seq, seen) ==
    IF seq = <<>> THEN <<>>
    ELSE IF Head(seq) \in seen THEN Distinct(Tail(seq), seen)
    ELSE <<Head(seq)>> \o Distinct(Tail(seq), seen \cup {Head(seq)})

RECURSIVE SortByCount(_, _)
\* Array.prototype.sort by descending count, stable
SortByCount(terms, doc) ==
    IF terms = <<>> THEN <<>>
    ELSE LET best == CHOOSE i \in 1..Len(terms) :
                        /\ \A j \in 1..Len(terms) :
                              CountOf(terms[j], doc) <= CountOf(terms[i], doc)
                        /\ \A j \in 1..(i - 1) :
                              CountOf(terms[j], doc) < CountOf(terms[i], doc)
         IN  <<terms[best]>> \o
             SortByCount([k \in 1..(Len(terms) - 1) |->
                             IF k < best THEN terms[k] ELSE terms[k + 1]], doc)

\* TfIdf of one document: listTerms(0), the terms by descending weight.  With
\* a single document every term has the same idf, so the weight orders the
\* terms by their frequency.
ListTerms(doc) == SortByCount(Distinct(doc, {}), doc)

Take(seq, k) == SubSeq(seq, 1, IF Len(seq) < k THEN Len(seq) ELSE k)

\* The elements of a sequence, as a set
Range(seq) == {seq[i] : i \in 1..Len(seq)}

\* ------------------------------------------------------------------ scorers

AcademicWordList ==
    {"analyze", "assess", "concept", "context", "contrast", "derive", "distribute",
     "environment", "establish", "estimate", "evaluate", "factor", "function",
     "identify", "interpret", "involve", "method", "occur", "principle", "proceed",
     "process", "require", "research", "respond", "significant", "similar",
     "specific", "structure", "theory", "variable"}

ConnectorWords ==
    {"therefore", "however", "moreover", "consequently", "furthermore",
     "nevertheless", "thus", "hence", "accordingly", "besides"}

\* Names every object inherits from Object.prototype: markovChain[token] is
\* truthy for them before anything is stored, and has no push.
InheritedKeys == {"constructor"}

\* The stems of a word list
StemsOf(words) == {<<StemAtom(w)>> : w \in words}

\* The unique successors of stem t in the chain
NextTokens(t, stemmed) == {stemmed[i + 1] : i \in {j \in 1..(Len(stemmed) - 1) : stemmed[j] = t}}

\* calculateVocabularyComplexity throws a TypeError on this text
VocabularyThrows(text) ==
    LET stemmed == StemAll(Tokenize(text))
    IN  \E i \in 1..(Len(stemmed) - 1) :
           Len(stemmed[i]) = 1 /\ stemmed[i][1] \in InheritedKeys

calculateVocabularyComplexity(text) ==
    LET tokens == Tokenize(text)
        stemmedTokens == StemAll(tokens)
        academicWordsInText ==
            SelectSeq(stemmedTokens, LAMBDA t : t \in StemsOf(AcademicWordList))
        academicWordDensity == Ratio(Len(academicWordsInText), Len(tokens))
        connectorWordsInText ==
            SelectSeq(stemmedTokens, LAMBDA t : t \in StemsOf(ConnectorWords))
        connectorWordFrequency == Ratio(Len(connectorWordsInText), Len(tokens))
        chainKeys == {stemmedTokens[i] : i \in 1..(Len(stemmedTokens) - 1)}
        optionCounts == [t \in chainKeys |-> Cardinality(NextTokens(t, stemmedTokens))]
        keySeq == Distinct(SubSeq(stemmedTokens, 1, Len(stemmedTokens) - 1), {})
        totalTransitionOptions == SumSeq([i \in 1..Len(keySeq) |-> optionCounts[keySeq[i]]])
        tokenCount == Cardinality(chainKeys)
        averageTransitionOptions ==
            IF tokenCount > 0 THEN Ratio(totalTransitionOptions, tokenCount) ELSE 0
        normalizedTransitionScore == MathMin(DivW(averageTransitionOptions, 500), Scale)
    IN  Add(Add(MulW(academicWordDensity, 40), MulW(connectorWordFrequency, 30)),
            MulW(normalizedTransitionScore, 30))

\* vader lexicon valence of an atom, in tenths
Valence(a) ==
    CASE a = "good" -> 19
      [] a = "bad" -> 0 - 25
      [] OTHER -> 0

\* vader.SentimentIntensityAnalyzer.polarity_scores(segment).compound:
\* sum / sqrt(sum^2 + 15) over the valences of the segment, in [-1,1]
Compound(segment) ==
    LET sum == SumSeq([i \in 1..Len(segment) |-> Valence(LowerAtom(segment[i]))])
    IN  (sum * Scale * 100) \div ISqrt((sum * sum + 1500) * 10000)

\* A guard that lets a single segment through
TooFewSegmentsOnlyEmpty(textSegments) == Len(textSegments) < 1

\* textSegments.length < 2: the early return of both segment scorers
TooFewSegments(textSegments) == Len(textSegments) < 2

calculateEmotionalFluctuation(textSegments) ==
    IF TooFewSegments(textSegments) THEN 0
    ELSE LET n == Len(textSegments)
             sentimentScores == [i \in 1..n |-> Compound(textSegments[i])]
             mean == SumSeq(sentimentScores) \div n
             squaredDifferences ==
                 [i \in 1..n |-> ((sentimentScores[i] - mean) * (sentimentScores[i] - mean)) \div Scale]
             variance == SumSeq(squaredDifferences) \div n
             standardDeviation == MathSqrt(variance)
         IN  MathMin(DivW(standardDeviation, 50), Scale)

\* The key concepts of one segment: its top 3 terms
SegmentConcepts(segment) == Take(ListTerms(StemAll(Tokenize(segment))), 3)

calculateCreativeDivergence(textSegments) ==
    IF TooFewSegments(textSegments) THEN 0
    ELSE LET n == Len(textSegments)
             segmentConcepts == [i \in 1..n |-> SegmentConcepts(textSegments[i])]
             jumpDistance(i) ==
                 LET currentConcepts == segmentConcepts[i]
                     nextConcepts == segmentConcepts[i + 1]
                     commonConcepts ==
                         SelectSeq(currentConcepts, LAMBDA c : c \in Range(nextConcepts))
                     longest == IF Len(currentConcepts) >= Len(nextConcepts)
                                THEN Len(currentConcepts) ELSE Len(nextConcepts)
                     similarityScore == Ratio(Len(commonConcepts), longest)
                 IN  Sub(Scale, similarityScore)
             jumps == [i \in 1..(n - 1) |-> jumpDistance(i)]
             totalJumpDistance ==
                 IF \E i \in 1..(n - 1) : IsNaN(jumps[i]) THEN NaN ELSE SumSeq(jumps)
             averageJumpDistance ==
                 IF IsNaN(totalJumpDistance) \/ n = 1 THEN NaN
                 ELSE totalJumpDistance \div (n - 1)
         IN  MathMin(MulW(averageJumpDistance, 150), Scale)

\* An inversion without the exponent
invertAIScoreLinear(aiScore) == Sub(Scale, aiScore)

\* 1 - Math.pow(aiScore, 1.5)
invertAIScore(aiScore) == Sub(Scale, Pow15(aiScore))

\* AISimilarityScoring.calculateOverallScore
aiCalculateOverallScore(vocabularyComplexity, emotionalFluctuation, creativeDivergence) ==
    Add(Add(MulW(invertAIScore(vocabularyComplexity), 30),
            MulW(invertAIScore(emotionalFluctuation), 40)),
        MulW(invertAIScore(creativeDivergence), 30))

\* Words natural's TfIdf drops from a document given as a string
Stopwords == {"the", "at", "on"}

\* idf of a term in a corpus of one document: 1 + ln(1/2)
SingleDocIdf == 3069

analyzeTextStructure(text) ==
    LET tokens == Tokenize(text)
        uniqueTokens == Range(StemAll(tokens))
        sentences == Sentences(text)
        doc == SelectSeq([i \in 1..Len(tokens) |-> ToLowerCase(tokens[i])],
                         LAMBDA t : ~(Len(t) = 1 /\ t[1] \in Stopwords))
        terms == Take(ListTerms(doc), 5)
    IN  [lexicalDiversity |-> Ratio(Cardinality(uniqueTokens), Len(tokens)),
         avgSentenceLength |-> Ratio(Len(tokens), Len(sentences)),
         keyTerms |-> [i \in 1..Len(terms) |->
                          [term |-> terms[i], score |-> CountOf(terms[i], doc) * SingleDocIdf]],
         tokenCount |-> Len(tokens),
         sentenceCount |-> Len(sentences)]

\* ------------------------------------------------------------------ judges

\* The five dimensions judged by the external model, and the local sixth
LLMDimensions == {"semanticElasticity", "emotionalExpression", "referenceAbility",
                  "ambiguityHandling", "creativeThinking"}

Dimensions == LLMDimensions \cup {"timePerception"}

\* The name of a dimension as the error texts spell it
DimensionText(d) ==
    CASE d = "semanticElasticity" -> "semantic elasticity"
      [] d = "emotionalExpression" -> "emotional expression"
      [] d = "referenceAbility" -> "reference ability"
      [] d = "ambiguityHandling" -> "ambiguity handling"
      [] d = "creativeThinking" -> "creative thinking"
      [] d = "timePerception" -> "time perception"

\* The fixed humanVsAI string of a dimension
HumanVsAI(d) ==
    CASE d = "semanticElasticity" ->
           "Human: topic natural transitions, acknowledges knowledge gaps\nAI: rigid logical structure, overuses transition phrases"
      [] d = "emotionalExpression" ->
           "Human: micro-emotional fluctuations, asymmetric responses\nAI: flat emotional tone, excessive political correctness"
      [] d = "referenceAbility" ->
           "Human: concrete examples, idiosyncratic details\nAI: generic examples, references to studies"
      [] d = "ambiguityHandling" ->
           "Human: temporary contradictions, self-correction\nAI: forced consistency, avoidance of uncertainty"
      [] d = "creativeThinking" ->
           "Human: cross-domain analogies, imperfect but novel ideas\nAI: pattern-based innovation, formulaic creativity"
      [] d = "timePerception" ->
           "Human: reasonable delays, vague time references\nAI: instant responses, precise time references"

\* A fallback that scores a failed call as 0 instead of the neutral 0.5
FallbackResultZero(d) ==
    [score |-> 0,
     analysis |-> <<"Error analyzing", DimensionText(d)>>,
     humanVsAI |-> HumanVsAI(d)]

\* The result a judge returns when its call fails
FallbackResult(d) ==
    [score |-> 5000,
     analysis |-> <<"Error analyzing", DimensionText(d)>>,
     humanVsAI |-> HumanVsAI(d)]

\* Reply texts are sequences of these atoms.
ScoreWords == {"Score", "score"}

DigitChars == {"0", "1", "5", "7", "9"}

NumberChars == DigitChars \cup {"."}

DigitVal(c) ==
    CASE c = "0" -> 0
      [] c = "1" -> 1
      [] c = "5" -> 5
      [] c = "7" -> 7
      [] c = "9" -> 9

RECURSIVE SkipWhile(_, _, _)
\* The first index at or after i whose atom is not in set (Len + 1 at the end)
SkipWhile(s, i, set) ==
    IF i <= Len(s) /\ s[i] \in set THEN SkipWhile(s, i + 1, set) ELSE i

\* The characters captured by /score:?\s*([0-9.]+)/i when it is tried at the
\* atom i (a "score"); <<>> when it does not match there
ScoreCaptureAt(s, i) ==
    LET afterColon == IF i + 1 <= Len(s) /\ s[i + 1] = ":" THEN i + 2 ELSE i + 1
        start == SkipWhile(s, afterColon, Spaces)
        stop == SkipWhile(s, start, NumberChars)
    IN  SubSeq(s, start, stop - 1)

\* analysisText.match(/score:?\s*([0-9.]+)/i): the capture of the leftmost
\* match, or <<>> for no match
ScoreMatch(s) ==
    LET hits == {i \in 1..Len(s) : s[i] \in ScoreWords /\ ScoreCaptureAt(s, i) # <<>>}
    IN  IF hits = {} THEN <<>>
        ELSE ScoreCaptureAt(s, CHOOSE i \in hits : \A j \in hits : i <= j)

RECURSIVE IntValue(_, _)
\* The value of a run of digits, read after the value acc; capped so that it
\* stays a machine integer (every value above 1 is clamped alike)
IntValue(ds, acc) ==
    IF ds = <<>> THEN acc
    ELSE IntValue(Tail(ds), IF acc >= 1000 THEN acc ELSE acc * 10 + DigitVal(Head(ds)))

RECURSIVE FracValue(_, _)
\* The value of the digits after the decimal point, the first worth unit
FracValue(ds, unit) ==
    IF ds = <<>> \/ unit = 0 THEN 0
    ELSE DigitVal(Head(ds)) * unit + FracValue(Tail(ds), unit \div 10)

\* parseFloat of a string of digits and dots: the longest prefix that is a
\* decimal literal; NaN when that prefix holds no digit
ParseFloat(cs) ==
    LET intEnd == SkipWhile(cs, 1, DigitChars)
        intPart == SubSeq(cs, 1, intEnd - 1)
        hasDot == intEnd <= Len(cs) /\ cs[intEnd] = "."
        fracEnd == IF hasDot THEN SkipWhile(cs, intEnd + 1, DigitChars) ELSE intEnd
        fracPart == IF hasDot THEN SubSeq(cs, intEnd + 1, fracEnd - 1) ELSE <<>>
    IN  IF intPart = <<>> /\ fracPart = <<>> THEN NaN
        ELSE IntValue(intPart, 0) * Scale + FracValue(fracPart, Scale \div 10)

\* Math.min(Math.max(score, 0), 1)
Clamp01(score) == MathMin(MathMax(score, 0), Scale)

\* What grok.chat can settle with: a transport failure (the promise rejects)
\* or a response whose choices hold at most one message.
ChatFails(outcome) == outcome.kind = "error"

\* The body of an LLM-backed analyze function after its call has settled:
\* the parsed reply, or the fallback of its catch block.
JudgeResult(d, outcome) ==
    IF ChatFails(outcome) \/ outcome.choices = <<>>
    THEN FallbackResult(d)
    ELSE LET analysisText == outcome.choices[1]
             scoreMatch == ScoreMatch(analysisText)
             score == IF scoreMatch # <<>> THEN ParseFloat(scoreMatch) ELSE 5000
         IN  [score |-> Clamp01(score),
              analysis |-> analysisText,
              humanVsAI |-> HumanVsAI(d)]

\* ------------------------------------------------------------------ time

\* The vague temporal phrases, as atom sequences
TimeExpressions ==
    {<<"recently">>, <<"lately">>, <<"the", " ", "other", " ", "day">>,
     <<"last", " ", "week">>, <<"a", " ", "while", " ", "ago">>,
     <<"a", " ", "few", " ", "days", " ", "ago">>, <<"some", " ", "time", " ", "ago">>,
     <<"earlier">>, <<"previously">>}

\* String.prototype.includes
Includes(s, part) ==
    \E i \in 1..(Len(s) - Len(part) + 1) : SubSeq(s, i, i + Len(part) - 1) = part

\* \b before the atom i, and after the atom j
BoundaryBefore(s, i) == i = 1 \/ ~IsWordAtom(s[i - 1])

BoundaryAfter(s, j) == j = Len(s) \/ ~IsWordAtom(s[j + 1])

\* The atoms i..j are digits, between lo and hi characters in all (an atom
\* holds at least one character, so a run of k characters holds at most k atoms)
DigitRun(s, i, j, lo, hi) ==
    /\ 1 <= i /\ i <= j /\ j <= Len(s)
    /\ \A k \in i..j : s[k] \in Digits
    /\ StrLen(SubSeq(s, i, j)) >= lo
    /\ StrLen(SubSeq(s, i, j)) <= hi

DateSeparators == {"/", ".", "-"}

\* /\b\d{1,2}[\/\.-]\d{1,2}[\/\.-]\d{2,4}\b/.test(text)
PreciseDatePattern(s) ==
    \E i \in 1..Len(s) : \E j \in i..(i + 1) : \E l \in (j + 2)..(j + 3) :
      \E n \in (l + 2)..(l + 5) :
        /\ BoundaryBefore(s, i)
        /\ DigitRun(s, i, j, 1, 2)
        /\ j + 1 <= Len(s) /\ s[j + 1] \in DateSeparators
        /\ DigitRun(s, j + 2, l, 1, 2)
        /\ l + 1 <= Len(s) /\ s[l + 1] \in DateSeparators
        /\ DigitRun(s, l + 2, n, 2, 4)
        /\ BoundaryAfter(s, n)

\* /\b\d{1,2}:\d{2}\b/.test(text)
PreciseTimePattern(s) ==
    \E i \in 1..Len(s) : \E j \in i..(i + 1) : \E n \in (j + 2)..(j + 3) :
        /\ BoundaryBefore(s, i)
        /\ DigitRun(s, i, j, 1, 2)
        /\ j + 1 <= Len(s) /\ s[j + 1] = ":"
        /\ DigitRun(s, j + 2, n, 2, 2)
        /\ BoundaryAfter(s, n)

HasVagueTimeReferences(text) == \E expr \in TimeExpressions : Includes(ToLowerCase(text), expr)

HasPreciseTimeReferences(text) == PreciseDatePattern(text) \/ PreciseTimePattern(text)

\* The mean of the delays, in units of 1/Scale ms (0 for no delays)
AvgDelay(responseDelays) ==
    IF Len(responseDelays) > 0 THEN Ratio(SumSeq(responseDelays), Len(responseDelays)) ELSE 0

\* A delay factor that also counts a mean of exactly 500 ms as too fast
DelayFactorInclusive(avgDelay) ==
    IF avgDelay >= 1200 * Scale /\ avgDelay <= 3400 * Scale THEN 2000
    ELSE IF avgDelay <= 500 * Scale THEN 0 - 2000
    ELSE 0

\* A delay factor that rewards a human-like mean with 0.4
DelayFactorWide(avgDelay) ==
    IF avgDelay >= 1200 * Scale /\ avgDelay <= 3400 * Scale THEN 4000
    ELSE IF avgDelay < 500 * Scale THEN 0 - 2000
    ELSE 0

\* The response delay factor added to the neutral score
DelayFactor(avgDelay) ==
    IF avgDelay >= 1200 * Scale /\ avgDelay <= 3400 * Scale THEN 2000
    ELSE IF avgDelay < 500 * Scale THEN 0 - 2000
    ELSE 0

analyzeTimePerception(text, responseDelays) ==
    LET avgDelay == AvgDelay(responseDelays)
        hasVagueTimeReferences == HasVagueTimeReferences(text)
        hasPreciseTimeReferences == HasPreciseTimeReferences(text)
        afterDelay == 5000 + DelayFactor(avgDelay)
        afterVague == IF hasVagueTimeReferences THEN afterDelay + 1500 ELSE afterDelay
        afterPrecise == IF hasPreciseTimeReferences THEN afterVague - 1500 ELSE afterVague
        score == Clamp01(afterPrecise)
    IN  [score |-> score,
         analysis |-> <<"Time perception analysis", (avgDelay + Scale \div 2) \div Scale,
                        hasVagueTimeReferences, hasPreciseTimeReferences, score \div 100,
                        IF score > 7000 THEN "human-like"
                        ELSE IF score < 3000 THEN "AI-like" ELSE "mixed">>,
         humanVsAI |-> HumanVsAI("timePerception")]

\* ------------------------------------------------------------------ aggregation

\* A weighted sum with the weights of two dimensions exchanged
innovationCalculateOverallScoreSwapped(scores) ==
    IF \E d \in DOMAIN scores : IsNaN(scores[d]) THEN NaN
    ELSE (scores.semanticElasticity * 15 + scores.emotionalExpression * 20
          + scores.referenceAbility * 20 + scores.ambiguityHandling * 15
          + scores.creativeThinking * 15 + scores.timePerception * 15) \div 100

\* InnovationFeatureMatrix.calculateOverallScore
innovationCalculateOverallScore(scores) ==
    IF \E d \in DOMAIN scores : IsNaN(scores[d]) THEN NaN
    ELSE (scores.semanticElasticity * 20 + scores.emotionalExpression * 20
          + scores.referenceAbility * 15 + scores.ambiguityHandling * 15
          + scores.creativeThinking * 15 + scores.timePerception * 15) \div 100

\* The combination with the two weights exchanged
CombineScoresSwapped(aiSimilarityScore, innovationFeatureScore) ==
    IF IsNaN(aiSimilarityScore) \/ IsNaN(innovationFeatureScore) THEN NaN
    ELSE (aiSimilarityScore * 6 + innovationFeatureScore * 4) \div 10

\* (aiSimilarityScore * 0.4) + (innovationFeatureScore * 0.6)
CombineScores(aiSimilarityScore, innovationFeatureScore) ==
    IF IsNaN(aiSimilarityScore) \/ IsNaN(innovationFeatureScore) THEN NaN
    ELSE (aiSimilarityScore * 4 + innovationFeatureScore * 6) \div 10

\* A classification whose upper threshold is exclusive
ClassifyStrict(overallHumanLikenessScore) ==
    IF ~IsNaN(overallHumanLikenessScore) /\ overallHumanLikenessScore > 7000 THEN "Human"
    ELSE IF Le(overallHumanLikenessScore, 3000) THEN "AI"
    ELSE "Ambiguous"

\* A branch that leaves the placeholder when the score is not a number
ClassifyNumbersOnly(overallHumanLikenessScore) ==
    IF IsNaN(overallHumanLikenessScore) THEN "Undetermined"
    ELSE IF overallHumanLikenessScore >= 7000 THEN "Human"
    ELSE IF overallHumanLikenessScore <= 3000 THEN "AI"
    ELSE "Ambiguous"

\* The classification branch of the handler
Classify(overallHumanLikenessScore) ==
    IF Ge(overallHumanLikenessScore, 7000) THEN "Human"
    ELSE IF Le(overallHumanLikenessScore, 3000) THEN "AI"
    ELSE "Ambiguous"

\* ------------------------------------------------------------------ state

VARIABLES
    pc,                   \* where the POST /api/analyze handler stands
    request,              \* the parsed request body
    invoked,              \* the analysis functions called for this request
    local,                \* textStructure and the three local scores
    chat,                 \* per LLM dimension: idle, pending or settled
    sent,                 \* per LLM dimension: completion requests issued
    settled,              \* per LLM dimension: what grok.chat settled with
    results,              \* per dimension: the judge's result
    totals,               \* the aggregate scores and the classification
    analysis_results,     \* the rows of the durable table
    mockAnalysisResults,  \* the process-wide in-memory map
    inserted,             \* how the insert of this request settled
    response,             \* the response sent
    unitIn,               \* the arguments of a function exercised alone
    unitOut,              \* its result
    sessions,             \* the ids of the rows of the durable sessions table
    interactions,         \* the rows of the durable interactions table
    mockSessions,         \* the process-wide in-memory map of sessions
    mockInteractions,     \* the process-wide in-memory map of interactions
    returned,             \* the rows of the reports returned to callers with a sessionId
    inflight,             \* per concurrent request: where it stands around its store write
    card,                 \* the state of the mounted QuestionCard
    now,                  \* what Date.now() returns in the browser
    presses,              \* the key presses the card has handled
    handed,               \* the calls of the card's onSubmit, in order
    page,                 \* the state of the test page
    fetching              \* the async function of the test page that is running, and its last request

storeVars == <<sessions, interactions, mockSessions, mockInteractions, returned, inflight>>

clientVars == <<card, now, presses, handed, page, fetching>>

vars == <<pc, request, invoked, local, chat, sent, settled, results, totals,
          analysis_results, mockAnalysisResults, inserted, response, unitIn, unitOut,
          storeVars, clientVars>>

serverVars == <<pc, request, invoked, local, chat, sent, settled, results, totals,
                        analysis_results, mockAnalysisResults, inserted, response, storeVars>>

handlerVars == <<pc, request, invoked, local, chat, sent, settled, results, totals,
                 analysis_results, mockAnalysisResults, inserted, response, storeVars, clientVars>>

\* The absence of a value
Nothing == [nothing |-> TRUE]

\* ------------------------------------------------------------------ inputs

TextPlain == <<"Cats", " ", "however", " ", "theory", " ", "good", ".">>

TextBlank == <<" ", " ">>

TextNoTokens == <<"!", "!", "!">>

TextTwoSegments == <<"good", " ", "w150", ".", "bad", " ", "w150", ".">>

TextDashes == <<"dash150", ".", "dash150">>

TextConstructor == <<"constructor", " ", "cat">>

TextMeeting == <<"Meeting", " ", "at", " ", "14", ":", "30", " ", "on", " ",
                 "12", "/", "05", "/", "2024">>

TextLastWeek == <<"the", " ", "cat", " ", "last", " ", "week">>

\* The text field of a request body: absent, a string, or a value of another
\* type (a number).
StringText(s) == [kind |-> "string", val |-> s]

MissingText == [kind |-> "missing", val |-> <<>>]

NumberText == [kind |-> "number", val |-> <<>>]

AnalyzeTexts ==
    {MissingText, NumberText} \cup
    {StringText(s) : s \in {<<>>, TextPlain, TextBlank, TextNoTokens, TextTwoSegments,
                            TextDashes, TextConstructor}}

\* The responseDelays field: absent, an array of numbers, or a value that is
\* no array (a string: it has a length and no reduce).
ArrayDelays(a) == [kind |-> "array", val |-> a]

MissingDelays == [kind |-> "missing", val |-> <<>>]

MalformedDelays == [kind |-> "malformed", val |-> <<>>]

AnalyzeDelays == {MissingDelays, MalformedDelays, ArrayDelays(<<2000, 2200, 2100>>)}

\* The sessionId field; "" stands for an absent one.
NoSession == ""

SessionIds == {"s1"}

ReplyScored == <<"Score", ":", " ", "0", ".", "9", " ", "text">>

ReplyPlain == <<"text">>

ChatError == [kind |-> "error", choices |-> <<>>]

ChatReply(choices) == [kind |-> "reply", choices |-> choices]

ChatOutcomes == {ChatError, ChatReply(<<>>), ChatReply(<<ReplyScored>>), ChatReply(<<ReplyPlain>>)}

\* How supabase's insert can settle: the row is stored, the client resolves
\* with an error value, or the client throws.
InsertOutcomes == {"stored", "error", "throws"}

\* ------------------------------------------------------------------ browser

\* useState<number | null>: null, or a number
NullTime == [kind |-> "null", val |-> 0]

TimeAt(t) == [kind |-> "number", val |-> t]

\* if (lastKeyTime): neither null nor 0
TruthyTime(lastKeyTime) == lastKeyTime.kind = "number" /\ lastKeyTime.val # 0

\* What the textarea can hold
ResponseValues == {"", " ", "hello"}

\* response.trim()
Trim(r) == IF r = " " THEN "" ELSE r

\* The initial state of a QuestionCard, which is also the state handleSubmit
\* resets it to
CardMounted == [response |-> "", responseDelays |-> <<>>, lastKeyTime |-> NullTime]

\* Date.now() when the card is mounted
MountTime == 1000

\* The initial state of the test page
PageMounted ==
    [sessionId |-> NoSession,
     currentQuestion |-> "",
     originalQuestion |-> "",
     questionDepth |-> 1,
     isLoading |-> FALSE,
     isAnalyzing |-> FALSE,
     results |-> Nothing,
     error |-> ""]

\* No request of the page is in flight and none was issued yet
NoFetch == [call |-> "none", awaiting |-> "none", route |-> "", body |-> Nothing, ok |-> TRUE]

\* Nothing has happened in the browser yet
ClientIdle ==
    /\ card = CardMounted
    /\ now = MountTime
    /\ presses = 0
    /\ handed = <<>>
    /\ page = PageMounted
    /\ fetching = NoFetch

\* A key press handler that records every interval
RecordDelayUnfiltered(responseDelays, lastKeyTime, currentTime) ==
    IF TruthyTime(lastKeyTime)
    THEN Append(responseDelays, currentTime - lastKeyTime.val)
    ELSE responseDelays

\* responseDelays after handleKeyPress has run at currentTime
RecordDelay(responseDelays, lastKeyTime, currentTime) ==
    IF TruthyTime(lastKeyTime)
    THEN LET delay == currentTime - lastKeyTime.val
         IN  IF delay >= 100 /\ delay <= 10000
             THEN Append(responseDelays, delay)
             ELSE responseDelays
    ELSE responseDelays

\* ------------------------------------------------------------------ handler

\* A check that rejects only an absent text
TruthyDefinedOnly(text) == text.kind # "missing"

\* JavaScript truthiness of the text field
Truthy(text) == text.kind = "number" \/ (text.kind = "string" /\ text.val # <<>>)

\* The synchronous part of the handler throws: text.split on a value that is
\* no string, or a TypeError inside a scorer.
SyncFault(text) == text.kind # "string" \/ VocabularyThrows(text.val)

\* The functions that have been called when the synchronous part throws
InvokedBeforeFault(text) ==
    IF text.kind # "string" THEN {}
    ELSE {"analyzeTextStructure", "calculateVocabularyComplexity"}

LocalScorers == {"analyzeTextStructure", "calculateVocabularyComplexity",
                 "calculateEmotionalFluctuation", "calculateCreativeDivergence",
                 "calculateOverallScore"}

JudgeFunctions == {"analyzeSemanticElasticity", "analyzeEmotionalExpression",
                   "analyzeReferenceAbility", "analyzeAmbiguityHandling",
                   "analyzeCreativeThinking", "analyzeTimePerception"}

\* textStructure and the AI-similarity scores of a text
LocalScores(text) ==
    LET textSegments == TextSegments(text)
        vocabularyComplexity == calculateVocabularyComplexity(text)
        emotionalFluctuation == calculateEmotionalFluctuation(textSegments)
        creativeDivergence == calculateCreativeDivergence(textSegments)
    IN  [textStructure |-> analyzeTextStructure(text),
         vocabularyComplexity |-> vocabularyComplexity,
         emotionalFluctuation |-> emotionalFluctuation,
         creativeDivergence |-> creativeDivergence,
         aiSimilarityScore |-> aiCalculateOverallScore(vocabularyComplexity,
                                   emotionalFluctuation, creativeDivergence)]

\* analyzeTimePerception(text, responseDelays || []) with the handler's catch:
\* the call rejects when responseDelays has no reduce
TimePerceptionResult(text, responseDelays) ==
    IF responseDelays.kind = "malformed" THEN FallbackResult("timePerception")
    ELSE analyzeTimePerception(text, responseDelays.val)

ErrorResponse(status, message) == [status |-> status, body |-> [error |-> message]]

\* A body that leaves the innovationFeatures section out
ReportDroppingSection(loc, res, tot) ==
    [textStructure |-> loc.textStructure,
     aiSimilarity |-> [vocabularyComplexity |-> loc.vocabularyComplexity,
                       emotionalFluctuation |-> loc.emotionalFluctuation,
                       creativeDivergence |-> loc.creativeDivergence,
                       overallScore |-> loc.aiSimilarityScore],
     overallHumanLikenessScore |-> tot.overallHumanLikenessScore,
     classification |-> tot.classification]

\* A body that reports two dimensions under each other's name
ReportSwapped(loc, res, tot) ==
    [textStructure |-> loc.textStructure,
     aiSimilarity |-> [vocabularyComplexity |-> loc.vocabularyComplexity,
                       emotionalFluctuation |-> loc.emotionalFluctuation,
                       creativeDivergence |-> loc.creativeDivergence,
                       overallScore |-> loc.aiSimilarityScore],
     innovationFeatures |->
         [semanticElasticity |-> res["emotionalExpression"],
          emotionalExpression |-> res["semanticElasticity"],
          referenceAbility |-> res["referenceAbility"],
          ambiguityHandling |-> res["ambiguityHandling"],
          creativeThinking |-> res["creativeThinking"],
          timePerception |-> res["timePerception"],
          overallScore |-> tot.innovationFeatureScore],
     overallHumanLikenessScore |-> tot.overallHumanLikenessScore,
     classification |-> tot.classification]

\* The body of the 200 response
Report(loc, res, tot) ==
    [textStructure |-> loc.textStructure,
     aiSimilarity |-> [vocabularyComplexity |-> loc.vocabularyComplexity,
                       emotionalFluctuation |-> loc.emotionalFluctuation,
                       creativeDivergence |-> loc.creativeDivergence,
                       overallScore |-> loc.aiSimilarityScore],
     innovationFeatures |->
         [semanticElasticity |-> res["semanticElasticity"],
          emotionalExpression |-> res["emotionalExpression"],
          referenceAbility |-> res["referenceAbility"],
          ambiguityHandling |-> res["ambiguityHandling"],
          creativeThinking |-> res["creativeThinking"],
          timePerception |-> res["timePerception"],
          overallScore |-> tot.innovationFeatureScore],
     overallHumanLikenessScore |-> tot.overallHumanLikenessScore,
     classification |-> tot.classification]

ReportResponse(loc, res, tot) == [status |-> 200, body |-> Report(loc, res, tot)]

\* The row written for a result
ResultRow(req, loc, res, tot) ==
    [session_id |-> req.sessionId,
     text |-> req.text.val,
     ai_similarity_score |-> loc.aiSimilarityScore,
     innovation_feature_score |-> tot.innovationFeatureScore,
     overall_score |-> tot.overallHumanLikenessScore,
     classification |-> tot.classification,
     text_structure |-> loc.textStructure,
     vocabulary_complexity |-> loc.vocabularyComplexity,
     emotional_fluctuation |-> loc.emotionalFluctuation,
     creative_divergence |-> loc.creativeDivergence,
     semantic_elasticity |-> res["semanticElasticity"].score,
     emotional_expression |-> res["emotionalExpression"].score,
     reference_ability |-> res["referenceAbility"].score,
     ambiguity_handling |-> res["ambiguityHandling"].score,
     creative_thinking |-> res["creativeThinking"].score,
     time_perception |-> res["timePerception"].score]

\* The aggregate scores and the classification
Totals(loc, res) ==
    LET innovationFeatureScore ==
            innovationCalculateOverallScore([d \in Dimensions |-> res[d].score])
        overallHumanLikenessScore == CombineScores(loc.aiSimilarityScore, innovationFeatureScore)
    IN  [innovationFeatureScore |-> innovationFeatureScore,
         overallHumanLikenessScore |-> overallHumanLikenessScore,
         classification |-> Classify(overallHumanLikenessScore)]

\* A fallback that replaces the list of the session by the new row
MockPushReplacing(map, sessionId, row) ==
    [k \in DOMAIN map \cup {sessionId} |-> IF k = sessionId THEN <<row>> ELSE map[k]]

\* A fallback that creates the list with the row but pushes nothing onto a
\* list that is already there
MockPushFirstOnly(map, sessionId, row) ==
    IF sessionId \in DOMAIN map THEN map
    ELSE [k \in DOMAIN map \cup {sessionId} |-> IF k = sessionId THEN <<row>> ELSE map[k]]

\* mockAnalysisResults after the fallback block has pushed the row
MockPush(map, sessionId, row) ==
    [k \in DOMAIN map \cup {sessionId} |->
        IF k = sessionId
        THEN Append(IF sessionId \in DOMAIN map THEN map[sessionId] ELSE <<>>, row)
        ELSE map[k]]

\* The analyze handler before any request
\* The requests that can be in flight at the same time
MaxWriters == 2

Writers == 1..MaxWriters

\* A request that has not arrived yet
WriterIdle == [pc |-> "idle", kind |-> "none", sessionId |-> NoSession, row |-> Nothing,
               how |-> "none"]

RequestIdle ==
    /\ ClientIdle
    /\ inflight = [w \in Writers |-> WriterIdle]
    /\ pc = "idle"
    /\ request = Nothing
    /\ invoked = {}
    /\ local = Nothing
    /\ chat = [d \in LLMDimensions |-> "idle"]
    /\ sent = [d \in Dimensions |-> 0]
    /\ settled = [d \in LLMDimensions |-> Nothing]
    /\ results = [d \in Dimensions |-> Nothing]
    /\ totals = Nothing
    /\ inserted = "none"
    /\ response = Nothing

\* The handler before any request: the sessions the requests name are rows of
\* the sessions table, every other table and map is empty.
HandlerIdle ==
    /\ RequestIdle
    /\ analysis_results = <<>>
    /\ mockAnalysisResults = <<>>
    /\ sessions = SessionIds
    /\ interactions = <<>>
    /\ mockSessions = <<>>
    /\ mockInteractions = <<>>
    /\ returned = {}

Init ==
    /\ HandlerIdle
    /\ unitIn = Nothing
    /\ unitOut = Nothing

\* POST /api/analyze with no text: the 400 response
PostRejected(text, responseDelays, sessionId) ==
    /\ pc = "idle"
    /\ ~Truthy(text)
    /\ request' = [text |-> text, responseDelays |-> responseDelays, sessionId |-> sessionId]
    /\ response' = ErrorResponse(400, "Text is required")
    /\ pc' = "responded"
    /\ UNCHANGED <<invoked, local, chat, sent, settled, results, totals,
                   analysis_results, mockAnalysisResults, inserted, unitIn, unitOut,
                   storeVars, clientVars>>

\* POST /api/analyze whose synchronous part throws: the outer catch answers 500
PostFaults(text, responseDelays, sessionId) ==
    /\ pc = "idle"
    /\ Truthy(text)
    /\ SyncFault(text)
    /\ request' = [text |-> text, responseDelays |-> responseDelays, sessionId |-> sessionId]
    /\ invoked' = InvokedBeforeFault(text)
    /\ response' = ErrorResponse(500, "Failed to analyze text")
    /\ pc' = "responded"
    /\ UNCHANGED <<local, chat, sent, settled, results, totals,
                   analysis_results, mockAnalysisResults, inserted, unitIn, unitOut,
                   storeVars, clientVars>>

\* The handler with one await per analyze call: up to the first await only
\* the first completion request has been issued.
PostAcceptedSequential(text, responseDelays, sessionId) ==
    /\ pc = "idle"
    /\ Truthy(text)
    /\ ~SyncFault(text)
    /\ request' = [text |-> text, responseDelays |-> responseDelays, sessionId |-> sessionId]
    /\ invoked' = LocalScorers \cup {"analyzeSemanticElasticity"}
    /\ local' = LocalScores(text.val)
    /\ chat' = [d \in LLMDimensions |->
                   IF d = "semanticElasticity" THEN "pending" ELSE "idle"]
    /\ sent' = [sent EXCEPT !["semanticElasticity"] = sent["semanticElasticity"] + 1]
    /\ pc' = "judging"
    /\ UNCHANGED <<settled, results, totals, analysis_results, mockAnalysisResults, inserted,
                   response, unitIn, unitOut,
                   storeVars, clientVars>>

\* POST /api/analyze up to its await of Promise.all: the segments, the local
\* scorers, and the six analyze calls, each run up to its first await (the
\* five completion requests are issued; time perception has no await).
PostAccepted(text, responseDelays, sessionId) ==
    /\ pc = "idle"
    /\ Truthy(text)
    /\ ~SyncFault(text)
    /\ request' = [text |-> text, responseDelays |-> responseDelays, sessionId |-> sessionId]
    /\ invoked' = LocalScorers \cup JudgeFunctions
    /\ local' = LocalScores(text.val)
    /\ chat' = [d \in LLMDimensions |-> "pending"]
    /\ sent' = [d \in Dimensions |-> IF d \in LLMDimensions THEN sent[d] + 1 ELSE sent[d]]
    /\ results' = [results EXCEPT
                      !["timePerception"] = TimePerceptionResult(text.val, responseDelays)]
    /\ pc' = "judging"
    /\ UNCHANGED <<settled, totals, analysis_results, mockAnalysisResults, inserted,
                   response, unitIn, unitOut,
                   storeVars, clientVars>>

\* An analyze function that sends its request a second time after a failure
ChatSettlesRetrying(d, outcome) ==
    /\ pc = "judging"
    /\ chat[d] = "pending"
    /\ IF (ChatFails(outcome) \/ outcome.choices = <<>>) /\ sent[d] < 2
       THEN /\ sent' = [sent EXCEPT ![d] = sent[d] + 1]
            /\ UNCHANGED <<chat, settled, results>>
       ELSE /\ chat' = [chat EXCEPT ![d] = "settled"]
            /\ settled' = [settled EXCEPT ![d] = outcome]
            /\ results' = [results EXCEPT ![d] = JudgeResult(d, outcome)]
            /\ UNCHANGED sent
    /\ UNCHANGED <<pc, request, invoked, local, totals, analysis_results,
                   mockAnalysisResults, inserted, response, unitIn, unitOut,
                   storeVars, clientVars>>

\* The completion request of dimension d settles and its analyze function
\* resumes: it returns the parsed reply, or the fallback from its catch block.
ChatSettles(d, outcome) ==
    /\ pc = "judging"
    /\ chat[d] = "pending"
    /\ chat' = [chat EXCEPT ![d] = "settled"]
    /\ settled' = [settled EXCEPT ![d] = outcome]
    /\ results' = [results EXCEPT ![d] = JudgeResult(d, outcome)]
    /\ UNCHANGED <<pc, request, invoked, local, sent, totals, analysis_results,
                   mockAnalysisResults, inserted, response, unitIn, unitOut,
                   storeVars, clientVars>>

\* Promise.all resolves: the aggregation and the classification; then the
\* insert is issued, or with no sessionId the report is returned.
Aggregate ==
    /\ pc = "judging"
    /\ \A d \in LLMDimensions : chat[d] = "settled"
    /\ totals' = Totals(local, results)
    /\ IF request.sessionId # NoSession
       THEN /\ pc' = "storing"
            /\ UNCHANGED response
       ELSE /\ pc' = "responded"
            /\ response' = ReportResponse(local, results, totals')
    /\ UNCHANGED <<request, invoked, local, chat, sent, settled, results,
                   analysis_results, mockAnalysisResults, inserted, unitIn, unitOut,
                   storeVars, clientVars>>

\* An insert whose throw reaches the outer catch: the 500 response
InsertSettlesUncaught(how) ==
    /\ pc = "storing"
    /\ how = "stored" => request.sessionId \in sessions
    /\ inserted' = how
    /\ analysis_results' =
          IF how = "stored"
          THEN Append(analysis_results, ResultRow(request, local, results, totals))
          ELSE analysis_results
    /\ response' = IF how = "throws" THEN ErrorResponse(500, "Failed to analyze text")
                   ELSE ReportResponse(local, results, totals)
    /\ pc' = "responded"
    /\ UNCHANGED <<request, invoked, local, chat, sent, settled, results, totals,
                   mockAnalysisResults, unitIn, unitOut,
                   storeVars, clientVars>>

\* The insert settles; a throw is caught and the row pushed to the in-memory
\* map; the report is returned.
InsertSettles(how) ==
    /\ pc = "storing"
    /\ how = "stored" => request.sessionId \in sessions
    /\ inserted' = how
    /\ analysis_results' =
          IF how = "stored"
          THEN Append(analysis_results, ResultRow(request, local, results, totals))
          ELSE analysis_results
    /\ mockAnalysisResults' =
          IF how = "throws"
          THEN MockPush(mockAnalysisResults, request.sessionId,
                        ResultRow(request, local, results, totals))
          ELSE mockAnalysisResults
    /\ response' = ReportResponse(local, results, totals)
    /\ pc' = "responded"
    /\ UNCHANGED <<request, invoked, local, chat, sent, settled, results, totals,
                   unitIn, unitOut,
                   storeVars, clientVars>>

Next ==
    \/ \E text \in AnalyzeTexts, responseDelays \in AnalyzeDelays,
          sessionId \in SessionIds \cup {NoSession} :
          \/ PostRejected(text, responseDelays, sessionId)
          \/ PostFaults(text, responseDelays, sessionId)
          \/ PostAccepted(text, responseDelays, sessionId)
    \/ \E d \in LLMDimensions, outcome \in ChatOutcomes : ChatSettles(d, outcome)
    \/ Aggregate
    \/ \E how \in InsertOutcomes : InsertSettles(how)

Spec == Init /\ [][Next]_vars

\* ------------------------------------------------------------------ sessions, questions and the stores

\* The ids the sessions table generates, the ids uuidv4 generates, and an id
\* no session was ever created under
DbIds == SessionIds

Uuids == {"u1"}

UnknownIds == {"x9"}

\* Map.prototype.set
MapSet(map, key, value) == [k \in DOMAIN map \cup {key} |-> IF k = key THEN value ELSE map[k]]

\* Map.prototype.get(key) || fallback
MapGetOr(map, key, fallback) == IF key \in DOMAIN map THEN map[key] ELSE fallback

\* .eq('session_id', sessionId) on the rows of a table
RowsOfSession(rows, sessionId) == SelectSeq(rows, LAMBDA r : r.session_id = sessionId)

\* depth || 1
DepthOrOne(depth) == IF depth = 0 THEN 1 ELSE depth

\* generateFollowUpQuestion: the reply, or '' from its catch block
FollowUpQuestion(outcome) ==
    IF ChatFails(outcome) \/ outcome.choices = <<>> THEN <<>> ELSE outcome.choices[1]

\* The row written for an interaction
InteractionRow(sessionId, originalQuestion, userResponse, followUpQuestion, depth) ==
    [session_id |-> sessionId,
     question |-> originalQuestion,
     response |-> userResponse,
     follow_up_question |-> followUpQuestion,
     depth |-> DepthOrOne(depth)]

\* The number of rows held by an in-memory map of lists
RECURSIVE MockCountOver(_, _)
MockCountOver(map, keys) ==
    IF keys = {} THEN 0
    ELSE LET k == CHOOSE x \in keys : TRUE
         IN  Len(map[k]) + MockCountOver(map, keys \ {k})

MockCount(map) == MockCountOver(map, DOMAIN map)

\* The rows held by the two tables and the two maps of lists together
StoredRows ==
    Len(analysis_results) + MockCount(mockAnalysisResults)
    + Len(interactions) + MockCount(mockInteractions)

MaxStoredRows == 2

\* How the three selects of GET /api/sessions settle, in order
SelectPatterns ==
    {<<"ok", "ok", "ok">>, <<"error", "ok", "ok">>, <<"throws", "ok", "ok">>,
     <<"ok", "error", "ok">>, <<"ok", "ok", "throws">>}

\* The POST /api/questions requests: the body, and how the completion
\* request of generateFollowUpQuestion settles
QuestionCalls ==
    {[originalQuestion |-> <<"cat">>, userResponse |-> <<"dog">>, depth |-> 0,
      outcome |-> ChatError],
     [originalQuestion |-> <<"cat">>, userResponse |-> <<"dog">>, depth |-> 2,
      outcome |-> ChatReply(<<ReplyPlain>>)],
     [originalQuestion |-> <<>>, userResponse |-> <<"dog">>, depth |-> 0,
      outcome |-> ChatReply(<<ReplyPlain>>)],
     [originalQuestion |-> <<"cat">>, userResponse |-> <<>>, depth |-> 2,
      outcome |-> ChatReply(<<ReplyPlain>>)]}

\* No request yet, every table and map empty
InitStore ==
    /\ RequestIdle
    /\ analysis_results = <<>>
    /\ mockAnalysisResults = <<>>
    /\ sessions = {}
    /\ interactions = <<>>
    /\ mockSessions = <<>>
    /\ mockInteractions = <<>>
    /\ returned = {}
    /\ unitIn = Nothing
    /\ unitOut = Nothing

\* How the insert-and-select of POST /api/sessions settles: like any insert,
\* or without an error and without a row
SessionInsertOutcomes == InsertOutcomes \cup {"norow"}

\* A fallback that answers with a fresh id without keeping it
CreateSessionUnrecorded(how) ==
    /\ pc = "idle"
    /\ request' = [route |-> "POST /api/sessions", id |-> NoSession]
    /\ IF how = "stored"
       THEN \E id \in DbIds \ sessions :
               /\ sessions' = sessions \cup {id}
               /\ response' = [status |-> 200, body |-> [sessionId |-> id]]
       ELSE \E sessionId \in Uuids \ DOMAIN mockSessions :
               /\ response' = [status |-> 200, body |-> [sessionId |-> sessionId]]
               /\ UNCHANGED sessions
    /\ UNCHANGED <<clientVars, inflight, pc, invoked, local, chat, sent, settled, results, totals,
                   analysis_results, mockAnalysisResults, inserted, unitIn, unitOut,
                   interactions, mockSessions, mockInteractions, returned>>

\* POST /api/sessions: the id of the inserted row; on an error, on a throw,
\* and when data[0] of an empty result throws inside the same try block, a
\* uuid kept in mockSessions
CreateSession(how) ==
    /\ pc = "idle"
    /\ request' = [route |-> "POST /api/sessions", id |-> NoSession]
    /\ IF how = "stored"
       THEN \E id \in DbIds \ sessions :
               /\ sessions' = sessions \cup {id}
               /\ response' = [status |-> 200, body |-> [sessionId |-> id]]
               /\ UNCHANGED mockSessions
       ELSE \E sessionId \in Uuids \ DOMAIN mockSessions :
               /\ mockSessions' = MapSet(mockSessions, sessionId, [id |-> sessionId])
               /\ response' = [status |-> 200, body |-> [sessionId |-> sessionId]]
               /\ UNCHANGED sessions
    /\ UNCHANGED <<clientVars, inflight, pc, invoked, local, chat, sent, settled, results, totals,
                   analysis_results, mockAnalysisResults, inserted, unitIn, unitOut,
                   interactions, mockInteractions, returned>>

\* The response of GET /api/sessions?id=<id> when the three selects settle
\* as a, b and c
GetResponse(id, a, b, c) ==
    IF id = NoSession THEN ErrorResponse(400, "Session ID is required")
    ELSE LET sessionError == a = "error" \/ (a = "ok" /\ id \notin sessions)
             fromTables == a = "ok" /\ ~sessionError /\ b = "ok" /\ c = "ok"
         IN  IF fromTables
             THEN [status |-> 200,
                   body |-> [session |-> [id |-> id],
                             interactions |-> RowsOfSession(interactions, id),
                             analysisResults |-> RowsOfSession(analysis_results, id)]]
             ELSE IF id \notin DOMAIN mockSessions
             THEN ErrorResponse(404, "Session not found")
             ELSE [status |-> 200,
                   body |-> [session |-> mockSessions[id],
                             interactions |-> MapGetOr(mockInteractions, id, <<>>),
                             analysisResults |-> MapGetOr(mockAnalysisResults, id, <<>>)]]

\* GET /api/sessions
GetSession(id, selects) ==
    /\ pc = "idle"
    /\ request' = [route |-> "GET /api/sessions", id |-> id]
    /\ response' = GetResponse(id, selects[1], selects[2], selects[3])
    /\ UNCHANGED <<pc, invoked, local, chat, sent, settled, results, totals, analysis_results,
                   mockAnalysisResults, inserted, unitIn, unitOut, storeVars, clientVars>>

\* POST /api/questions
PostQuestion(originalQuestion, userResponse, depth, sessionId, outcome, how) ==
    /\ pc = "idle"
    /\ request' = [route |-> "POST /api/questions", id |-> sessionId]
    /\ IF originalQuestion = <<>> \/ userResponse = <<>>
       THEN /\ response' = ErrorResponse(400, "Original question and user response are required")
            /\ UNCHANGED <<interactions, mockInteractions>>
       ELSE LET followUpQuestion == FollowUpQuestion(outcome)
                row == InteractionRow(sessionId, originalQuestion, userResponse,
                                      followUpQuestion, depth)
            IN  /\ how = "stored" => sessionId \in sessions
                /\ (sessionId # NoSession /\ how # "error") => StoredRows < MaxStoredRows
                /\ interactions' =
                      IF sessionId # NoSession /\ how = "stored"
                      THEN Append(interactions, row) ELSE interactions
                /\ mockInteractions' =
                      IF sessionId # NoSession /\ how = "throws"
                      THEN MockPush(mockInteractions, sessionId, row) ELSE mockInteractions
                /\ response' = [status |-> 200, body |-> [followUpQuestion |-> followUpQuestion]]
    /\ UNCHANGED <<clientVars, inflight, pc, invoked, local, chat, sent, settled, results, totals, analysis_results,
                   mockAnalysisResults, inserted, unitIn, unitOut, sessions, mockSessions,
                   returned>>

\* POST /api/analyze with a sessionId, from the accepted request to the
\* response, when every completion request settles as outcome and the insert
\* as how
AnalyzeRequest(text, responseDelays, sessionId, outcome, how) ==
    /\ pc = "idle"
    /\ Truthy(text)
    /\ ~SyncFault(text)
    /\ sessionId # NoSession
    /\ how # "error" => StoredRows < MaxStoredRows
    /\ how = "stored" => sessionId \in sessions
    /\ \E loc \in {LocalScores(text.val)} :
       \E res \in {[d \in Dimensions |->
                       IF d = "timePerception"
                       THEN TimePerceptionResult(text.val, responseDelays)
                       ELSE JudgeResult(d, outcome)]} :
       \E tot \in {Totals(loc, res)} :
       \E row \in {ResultRow([text |-> text, responseDelays |-> responseDelays,
                               sessionId |-> sessionId], loc, res, tot)} :
           /\ analysis_results' =
                 IF how = "stored" THEN Append(analysis_results, row) ELSE analysis_results
           /\ mockAnalysisResults' =
                 IF how = "throws" THEN MockPush(mockAnalysisResults, sessionId, row)
                 ELSE mockAnalysisResults
           /\ returned' = returned \cup {row}
           /\ response' = ReportResponse(loc, res, tot)
    /\ request' = [route |-> "POST /api/analyze", id |-> sessionId]
    /\ UNCHANGED <<clientVars, inflight, pc, invoked, local, chat, sent, settled, results, totals, inserted,
                   unitIn, unitOut, sessions, interactions, mockSessions, mockInteractions>>

NextStore ==
    \/ \E how \in SessionInsertOutcomes : CreateSession(how)
    \/ \E id \in DbIds \cup Uuids \cup UnknownIds \cup {NoSession},
          selects \in SelectPatterns :
          GetSession(id, selects)
    \/ \E call \in QuestionCalls, sessionId \in Uuids \cup {NoSession},
          how \in InsertOutcomes :
          PostQuestion(call.originalQuestion, call.userResponse, call.depth, sessionId,
                       call.outcome, how)
    \/ \E sessionId \in DbIds \cup Uuids, how \in InsertOutcomes :
          AnalyzeRequest(StringText(TextPlain), ArrayDelays(<<2000, 2200, 2100>>),
                         sessionId, ChatReply(<<ReplyScored>>), how)

SpecStore == InitStore /\ [][NextStore]_vars

\* ------------------------------------------------------------------ concurrent store writes

\* The row POST /api/analyze writes for a text, when every completion request
\* settles as outcome
AnalysisRow(text, responseDelays, sessionId, outcome) ==
    LET loc == LocalScores(text.val)
        res == [d \in Dimensions |->
                   IF d = "timePerception" THEN TimePerceptionResult(text.val, responseDelays)
                   ELSE JudgeResult(d, outcome)]
    IN  ResultRow([text |-> text, responseDelays |-> responseDelays, sessionId |-> sessionId],
                  loc, res, Totals(loc, res))

\* The rows the concurrent requests write: two analyses and two interactions
WriterRows(sessionId) ==
    {<<"analyze", AnalysisRow(StringText(t), ArrayDelays(<<2000, 2200, 2100>>), sessionId,
                              ChatReply(<<ReplyScored>>))>> : t \in {TextPlain, TextLastWeek}}
    \cup
    {<<"question", InteractionRow(sessionId, <<"cat">>, u, <<>>, 1)>> : u \in {<<"dog">>, <<"the">>}}

\* A handler reaches its store write: the insert is issued and awaited
WriteIssued(w, sessionId) ==
    /\ pc = "idle"
    /\ inflight[w].pc = "idle"
    /\ \E rows \in {WriterRows(sessionId)} : \E kr \in rows :
          inflight' = [inflight EXCEPT ![w] = [pc |-> "awaiting", kind |-> kr[1],
                                                sessionId |-> sessionId, row |-> kr[2],
                                                how |-> "none"]]
    /\ UNCHANGED <<clientVars, pc, request, invoked, local, chat, sent, settled, results, totals,
                   analysis_results, mockAnalysisResults, inserted, response, unitIn, unitOut,
                   sessions, interactions, mockSessions, mockInteractions, returned>>

\* The awaited insert settles and the handler runs on without another await:
\* a throw is caught and the fallback block pushes the row
WriteSettles(w, how) ==
    /\ inflight[w].pc = "awaiting"
    /\ how = "stored" => inflight[w].sessionId \in sessions
    /\ inflight' = [inflight EXCEPT ![w].pc = "done", ![w].how = how]
    /\ analysis_results' =
          IF how = "stored" /\ inflight[w].kind = "analyze"
          THEN Append(analysis_results, inflight[w].row) ELSE analysis_results
    /\ interactions' =
          IF how = "stored" /\ inflight[w].kind = "question"
          THEN Append(interactions, inflight[w].row) ELSE interactions
    /\ mockAnalysisResults' =
          IF how = "throws" /\ inflight[w].kind = "analyze"
          THEN MockPush(mockAnalysisResults, inflight[w].sessionId, inflight[w].row)
          ELSE mockAnalysisResults
    /\ mockInteractions' =
          IF how = "throws" /\ inflight[w].kind = "question"
          THEN MockPush(mockInteractions, inflight[w].sessionId, inflight[w].row)
          ELSE mockInteractions
    /\ UNCHANGED <<clientVars, pc, request, invoked, local, chat, sent, settled, results, totals,
                   inserted, response, unitIn, unitOut, sessions, mockSessions, returned>>

NextWriters ==
    \/ \E w \in Writers, sessionId \in DbIds \cup Uuids : WriteIssued(w, sessionId)
    \/ \E w \in Writers, how \in InsertOutcomes : WriteSettles(w, how)

SpecWriters == Init /\ [][NextWriters]_vars

\* ------------------------------------------------------------------ question card

\* The milliseconds between two key presses
KeyIntervals == {0, 99, 100, 10000, 10001}

MaxPresses == 3

MaxSubmits == 2

\* onKeyDown, elapsed milliseconds after the previous event
handleKeyPress(elapsed) ==
    /\ presses < MaxPresses
    /\ now' = now + elapsed
    /\ presses' = presses + 1
    /\ card' = [card EXCEPT
                   !.responseDelays = RecordDelay(card.responseDelays, card.lastKeyTime, now'),
                   !.lastKeyTime = TimeAt(now')]
    /\ UNCHANGED <<serverVars, unitIn, unitOut, handed, page, fetching>>

\* onChange
setResponse(value) ==
    /\ card' = [card EXCEPT !.response = value]
    /\ UNCHANGED <<serverVars, unitIn, unitOut, now, presses, handed, page, fetching>>

\* onSubmit of the form
handleSubmit ==
    /\ IF Trim(card.response) # ""
       THEN /\ Len(handed) < MaxSubmits
            /\ handed' = Append(handed, [response |-> card.response,
                                          responseDelays |-> card.responseDelays])
            /\ card' = CardMounted
       ELSE UNCHANGED <<handed, card>>
    /\ UNCHANGED <<serverVars, unitIn, unitOut, now, presses, page, fetching>>

NextCard ==
    \/ \E elapsed \in KeyIntervals : handleKeyPress(elapsed)
    \/ \E value \in ResponseValues : setResponse(value)
    \/ handleSubmit

SpecCard == Init /\ [][NextCard]_vars

\* ------------------------------------------------------------------ test page

\* What the routes answer to the page
PageSessionIds == {"s1", "u1"}

PageQuestions == {"q1"}

PageFollowUps == {"", "f1"}

PageReports == {[classification |-> "Human"]}

\* What QuestionCard hands to onSubmit
PageResponses == {"hello", "hi"}

PageDelays == {<<>>, <<150>>}

\* A fetch settles with an ok response carrying data, with a response that
\* is not ok, or its promise rejects
FetchOk(data) == [kind |-> "ok", data |-> data]

FetchFailures == {[kind |-> "notOk", data |-> Nothing], [kind |-> "rejects", data |-> Nothing]}

\* The finally block of handleSubmitResponse
SubmitFinally(state) == [state EXCEPT !.isLoading = FALSE, !.isAnalyzing = FALSE]

\* The finally block of initializeSession and of handleReset
LoadFinally(state) == [state EXCEPT !.isLoading = FALSE]

\* A branch that still asks a follow-up question at depth 3
SubmitBranchInclusive(questionDepth) == IF questionDepth <= 3 THEN "followUp" ELSE "analyze"

\* if (questionDepth < 3)
SubmitBranch(questionDepth) == IF questionDepth < 3 THEN "followUp" ELSE "analyze"

\* The effect of the first render: initializeSession up to its first await
InitializeStarts ==
    /\ fetching.call = "none"
    /\ page' = [page EXCEPT !.isLoading = TRUE]
    /\ fetching' = [call |-> "initialize", awaiting |-> "session",
                    route |-> "POST /api/sessions", body |-> Nothing, ok |-> TRUE]
    /\ UNCHANGED <<serverVars, unitIn, unitOut, card, now, presses, handed>>

\* handleReset up to its first await; its button is shown with the results
handleReset ==
    /\ ~page.isAnalyzing
    /\ page.results # Nothing
    /\ page' = [page EXCEPT !.isLoading = TRUE, !.results = Nothing, !.questionDepth = 1]
    /\ fetching' = [call |-> "reset", awaiting |-> "session",
                    route |-> "POST /api/sessions", body |-> Nothing, ok |-> TRUE]
    /\ UNCHANGED <<serverVars, unitIn, unitOut, card, now, presses, handed>>

\* The answer to POST /api/sessions arrives: initializeSession or handleReset
\* runs on to the fetch of the question, or to its catch and finally
SessionFetchSettles(outcome) ==
    /\ fetching.awaiting = "session"
    /\ IF outcome.kind = "ok"
       THEN /\ page' = [page EXCEPT !.sessionId = outcome.data]
            /\ fetching' = [fetching EXCEPT !.awaiting = "question",
                                             !.route = "GET /api/questions"]
       ELSE /\ page' = LoadFinally([page EXCEPT !.error =
                           IF fetching.call = "reset"
                           THEN "Failed to reset test. Please try again."
                           ELSE "Failed to initialize test. Please try again."])
            /\ fetching' = [fetching EXCEPT !.awaiting = "none", !.ok = FALSE]
    /\ UNCHANGED <<serverVars, unitIn, unitOut, card, now, presses, handed>>

\* The answer to GET /api/questions arrives
QuestionFetchSettles(outcome) ==
    /\ fetching.awaiting = "question"
    /\ page' = LoadFinally(
                  IF outcome.kind = "ok"
                  THEN [page EXCEPT !.currentQuestion = outcome.data,
                                    !.originalQuestion = outcome.data]
                  ELSE [page EXCEPT !.error =
                           IF fetching.call = "reset"
                           THEN "Failed to reset test. Please try again."
                           ELSE "Failed to initialize test. Please try again."])
    /\ fetching' = [fetching EXCEPT !.awaiting = "none", !.ok = outcome.kind = "ok"]
    /\ UNCHANGED <<serverVars, unitIn, unitOut, card, now, presses, handed>>

\* handleSubmitResponse up to its await; QuestionCard is shown when the page
\* is neither analyzing nor showing results, and submits when it is not
\* loading and the trimmed response is not empty
handleSubmitResponse(userResponse, responseDelays) ==
    /\ ~page.isAnalyzing
    /\ page.results = Nothing
    /\ ~page.isLoading
    /\ Trim(userResponse) # ""
    /\ IF SubmitBranch(page.questionDepth) = "followUp"
       THEN /\ page' = [page EXCEPT !.isLoading = TRUE]
            /\ fetching' = [call |-> "submit", awaiting |-> "followUp",
                            route |-> "POST /api/questions",
                            body |-> [originalQuestion |-> page.originalQuestion,
                                      userResponse |-> userResponse,
                                      depth |-> page.questionDepth,
                                      sessionId |-> page.sessionId],
                            ok |-> TRUE]
       ELSE /\ page' = [page EXCEPT !.isLoading = TRUE, !.isAnalyzing = TRUE]
            /\ fetching' = [call |-> "submit", awaiting |-> "analyze",
                            route |-> "POST /api/analyze",
                            body |-> [text |-> userResponse,
                                      responseDelays |-> responseDelays,
                                      sessionId |-> page.sessionId],
                            ok |-> TRUE]
    /\ UNCHANGED <<serverVars, unitIn, unitOut, card, now, presses, handed>>

\* The answer to POST /api/questions arrives; questionDepth is the value the
\* handler captured when it was called
FollowUpFetchSettles(outcome) ==
    /\ fetching.awaiting = "followUp"
    /\ page' = SubmitFinally(
                  IF outcome.kind = "ok"
                  THEN [page EXCEPT !.currentQuestion = outcome.data,
                                    !.questionDepth = fetching.body.depth + 1]
                  ELSE [page EXCEPT !.error = "An error occurred. Please try again."])
    /\ fetching' = [fetching EXCEPT !.awaiting = "none", !.ok = outcome.kind = "ok"]
    /\ UNCHANGED <<serverVars, unitIn, unitOut, card, now, presses, handed>>

\* The answer to POST /api/analyze arrives
AnalysisFetchSettles(outcome) ==
    /\ fetching.awaiting = "analyze"
    /\ page' = SubmitFinally(
                  IF outcome.kind = "ok"
                  THEN [page EXCEPT !.results = outcome.data]
                  ELSE [page EXCEPT !.error = "An error occurred. Please try again."])
    /\ fetching' = [fetching EXCEPT !.awaiting = "none", !.ok = outcome.kind = "ok"]
    /\ UNCHANGED <<serverVars, unitIn, unitOut, card, now, presses, handed>>

\* The Dismiss button of the error banner
DismissError ==
    /\ page.error # ""
    /\ page' = [page EXCEPT !.error = ""]
    /\ UNCHANGED <<serverVars, unitIn, unitOut, card, now, presses, handed, fetching>>

NextPage ==
    \/ InitializeStarts
    \/ handleReset
    \/ \E outcome \in {FetchOk(id) : id \in PageSessionIds} \cup FetchFailures :
          SessionFetchSettles(outcome)
    \/ \E outcome \in {FetchOk(q) : q \in PageQuestions} \cup FetchFailures :
          QuestionFetchSettles(outcome)
    \/ \E userResponse \in PageResponses, responseDelays \in PageDelays :
          handleSubmitResponse(userResponse, responseDelays)
    \/ \E outcome \in {FetchOk(q) : q \in PageFollowUps} \cup FetchFailures :
          FollowUpFetchSettles(outcome)
    \/ \E outcome \in {FetchOk(r) : r \in PageReports} \cup FetchFailures :
          AnalysisFetchSettles(outcome)
    \/ DismissError

SpecPage == Init /\ [][NextPage]_vars

\* ------------------------------------------------------------------ functions exercised alone

\* The classification of every score of [0,1], and of NaN
InitClassify ==
    /\ HandlerIdle
    /\ unitIn \in {[score |-> x] : x \in (0..Scale) \cup {NaN}}
    /\ unitOut = Nothing

ClassifyStep ==
    /\ unitOut = Nothing
    /\ unitOut' = [classification |-> Classify(unitIn.score)]
    /\ UNCHANGED <<handlerVars, unitIn>>

SpecClassify == InitClassify /\ [][ClassifyStep]_vars

TextBoth == <<"Recently", " ", "14", ":", "30">>

TextDateOnly == <<"on", " ", "12", "-", "05", "-", "2024", ".">>

TextNearMiss == <<"123", ":", "30", " ", "cat", " ", "12", "/", "05">>

TimeTexts == {TextPlain, TextLastWeek, TextMeeting, TextBoth, TextDateOnly, TextNearMiss}

MaxDelays == 3

DelayValues == {100, 120, 499, 500, 1199, 1200, 2000, 2100, 2200, 3400, 3401}

DelayArrays == UNION {[1..n -> DelayValues] : n \in 0..MaxDelays}

InitTime ==
    /\ HandlerIdle
    /\ unitIn \in {[text |-> t, responseDelays |-> a] : t \in TimeTexts, a \in DelayArrays}
    /\ unitOut = Nothing

TimeStep ==
    /\ unitOut = Nothing
    /\ unitOut' = analyzeTimePerception(unitIn.text, unitIn.responseDelays)
    /\ UNCHANGED <<handlerVars, unitIn>>

SpecTime == InitTime /\ [][TimeStep]_vars

\* The two segment scorers on every list of up to MaxSegments segments
SegmentValues ==
    {<<>>, <<" ">>, <<"good">>, <<"bad">>, <<"dash150">>, <<"cat", " ", "dog">>,
     <<"theory", " ", "however">>, <<"good", " ", "cat">>}

MaxSegments == 2

SegmentLists == UNION {[1..n -> SegmentValues] : n \in 0..MaxSegments}

InitSegments ==
    /\ HandlerIdle
    /\ unitIn \in {[textSegments |-> l] : l \in SegmentLists}
    /\ unitOut = Nothing

SegmentsStep ==
    /\ unitOut = Nothing
    /\ unitOut' = [emotionalFluctuation |-> calculateEmotionalFluctuation(unitIn.textSegments),
                   creativeDivergence |-> calculateCreativeDivergence(unitIn.textSegments)]
    /\ UNCHANGED <<handlerVars, unitIn>>

SpecSegments == InitSegments /\ [][SegmentsStep]_vars

\* The grouping loop on every list of up to MaxSentences sentences
SentenceValues ==
    {<<"cat">>, <<" ", "good">>, <<"w50">>, <<"w150">>, <<"w250">>, <<"dash150">>}

MaxSentences == 3

SentenceLists == UNION {[1..n -> SentenceValues] : n \in 0..MaxSentences}

InitGroup ==
    /\ HandlerIdle
    /\ unitIn \in {[sentences |-> l] : l \in SentenceLists}
    /\ unitOut = Nothing

GroupStep ==
    /\ unitOut = Nothing
    /\ unitOut' = [textSegments |-> GroupSegments(unitIn.sentences, <<>>, <<>>)]
    /\ UNCHANGED <<handlerVars, unitIn>>

SpecGroup == InitGroup /\ [][GroupStep]_vars

\* AISimilarityScoring.calculateOverallScore on a grid of [0,1]
GridSteps == 20

Grid == {(k * Scale) \div GridSteps : k \in 0..GridSteps}

InitInvert ==
    /\ HandlerIdle
    /\ unitIn \in [vocabularyComplexity : Grid, emotionalFluctuation : Grid,
                   creativeDivergence : Grid]
    /\ unitOut = Nothing

InvertStep ==
    /\ unitOut = Nothing
    /\ unitOut' = [score |-> aiCalculateOverallScore(unitIn.vocabularyComplexity,
                                 unitIn.emotionalFluctuation, unitIn.creativeDivergence)]
    /\ UNCHANGED <<handlerVars, unitIn>>

SpecInvert == InitInvert /\ [][InvertStep]_vars

\* InnovationFeatureMatrix.calculateOverallScore on a grid of [0,1]
WeightSteps == 3

WeightGrid == {(k * Scale) \div WeightSteps : k \in 0..WeightSteps}

InitWeights ==
    /\ HandlerIdle
    /\ unitIn \in {[scores |-> f] : f \in [Dimensions -> WeightGrid]}
    /\ unitOut = Nothing

WeightsStep ==
    /\ unitOut = Nothing
    /\ unitOut' = [score |-> innovationCalculateOverallScore(unitIn.scores)]
    /\ UNCHANGED <<handlerVars, unitIn>>

SpecWeights == InitWeights /\ [][WeightsStep]_vars

\* An LLM-backed judge on every reply of up to MaxReply atoms
ReplyAtoms == {"Score", "score", ":", " ", ".", "0", "7", "text"}

MaxReply == 4

Replies == UNION {[1..n -> ReplyAtoms] : n \in 0..MaxReply}

InitJudge ==
    /\ HandlerIdle
    /\ unitIn \in {[reply |-> r] : r \in Replies}
    /\ unitOut = Nothing

JudgeStep ==
    /\ unitOut = Nothing
    /\ unitOut' = JudgeResult("semanticElasticity", ChatReply(<<unitIn.reply>>))
    /\ UNCHANGED <<handlerVars, unitIn>>

SpecJudge == InitJudge /\ [][JudgeStep]_vars

\* ------------------------------------------------------------------ claims

\* The handler has answered with a report
Reported == pc = "responded" /\ response.status = 200

\* The score fields of a report
ScoreFields(body) ==
    {body.aiSimilarity.vocabularyComplexity, body.aiSimilarity.emotionalFluctuation,
     body.aiSimilarity.creativeDivergence, body.aiSimilarity.overallScore,
     body.innovationFeatures.overallScore, body.overallHumanLikenessScore}
    \cup {body.innovationFeatures[d].score : d \in Dimensions}

\* C1: every score field of a returned report is a number in [0,1].
C1_ScoresInUnit == Reported => \A x \in ScoreFields(response.body) : InUnit(x)

ReportSections ==
    {"textStructure", "aiSimilarity", "innovationFeatures", "overallHumanLikenessScore",
     "classification"}

CompleteReport(body) ==
    /\ DOMAIN body = ReportSections
    /\ DOMAIN body.aiSimilarity =
          {"vocabularyComplexity", "emotionalFluctuation", "creativeDivergence", "overallScore"}
    /\ DOMAIN body.innovationFeatures = Dimensions \cup {"overallScore"}
    /\ \A d \in Dimensions :
          DOMAIN body.innovationFeatures[d] = {"score", "analysis", "humanVsAI"}

\* C2: every response is a 400 or 500 failure carrying only an error field, or
\* a report with every section; a request whose processing throws is answered
\* with the 500 failure.
C2_CompleteReportOrFailure ==
    pc = "responded" =>
        /\ \/ response.status \in {400, 500} /\ DOMAIN response.body = {"error"}
           \/ response.status = 200 /\ CompleteReport(response.body)
        /\ (Truthy(request.text) /\ SyncFault(request.text)) =>
              response = [status |-> 500, body |-> [error |-> "Failed to analyze text"]]

C2_Witness_FaultAnswered ==
    pc = "responded" /\ response.status = 500 /\ request.text = StringText(TextConstructor)

\* A call that failed: a transport error, or a reply with no usable choices
CallFailed(d) == chat[d] = "settled" /\ (settled[d].kind = "error" \/ settled[d].choices = <<>>)

\* C3: a failed call of dimension d gives d exactly the fallback result
\* {0.5, 'Error analyzing <d>', the fixed string of d}; the request still
\* returns a report; and every other judge's result, time perception
\* included, is what its own call and the request alone determine.
C3_FailureIsolated ==
    /\ \A d \in LLMDimensions :
          CallFailed(d) =>
              results[d] = [score |-> Scale \div 2,
                            analysis |-> <<"Error analyzing", DimensionText(d)>>,
                            humanVsAI |-> HumanVsAI(d)]
    /\ \A e \in LLMDimensions :
          (chat[e] = "settled" /\ ~CallFailed(e)) =>
              /\ results[e].analysis = settled[e].choices[1]
              /\ results[e] = JudgeResult(e, settled[e])
    /\ pc \in {"judging", "storing", "responded"} /\ chat # [d \in LLMDimensions |-> "idle"] =>
          results["timePerception"] =
              TimePerceptionResult(request.text.val, request.responseDelays)
    /\ (pc = "responded" /\ \E d \in LLMDimensions : CallFailed(d)) =>
          /\ response.status = 200
          /\ \A e \in Dimensions : response.body.innovationFeatures[e] = results[e]

C3_Witness_OneFailsOthersScore ==
    /\ Reported
    /\ CallFailed("semanticElasticity")
    /\ settled["emotionalExpression"] = ChatReply(<<ReplyScored>>)
    /\ response.body.innovationFeatures["emotionalExpression"].score = 9000
    /\ response.body.innovationFeatures["semanticElasticity"].score = 5000

\* C4: the classification partitions [0,1]: Human exactly from 0.7 up, AI
\* exactly up to 0.3, Ambiguous exactly strictly between.
C4_ClassificationPartition ==
    (unitOut # Nothing /\ InUnit(unitIn.score)) =>
        /\ unitOut.classification \in {"Human", "AI", "Ambiguous"}
        /\ unitOut.classification = "Human" <=> unitIn.score >= 7000
        /\ unitOut.classification = "AI" <=> unitIn.score <= 3000
        /\ unitOut.classification = "Ambiguous" <=> (3000 < unitIn.score /\ unitIn.score < 7000)

C4_Witness_BoundaryHuman ==
    unitOut # Nothing /\ unitIn.score = 7000 /\ unitOut.classification = "Human"

\* C5: the overall score of a report is 0.4 times its aiSimilarity.overallScore
\* plus 0.6 times its innovationFeatures.overallScore; equal sub-scores s give
\* s (0.9 Human, 0.1 AI, 0.5 Ambiguous).
C5_OverallIsWeightedSum ==
    /\ Reported =>
          LET a == response.body.aiSimilarity.overallScore
              i == response.body.innovationFeatures.overallScore
          IN  response.body.overallHumanLikenessScore =
                  IF IsNaN(a) \/ IsNaN(i) THEN NaN ELSE (4 * a + 6 * i) \div 10
    /\ \A k \in 0..20 : CombineScores(k * 500, k * 500) = k * 500
    /\ Classify(CombineScores(9000, 9000)) = "Human"
    /\ Classify(CombineScores(1000, 1000)) = "AI"
    /\ Classify(CombineScores(5000, 5000)) = "Ambiguous"

C5_Witness_DistinctOperands ==
    /\ Reported
    /\ InUnit(response.body.aiSimilarity.overallScore)
    /\ InUnit(response.body.innovationFeatures.overallScore)
    /\ response.body.aiSimilarity.overallScore # response.body.innovationFeatures.overallScore

\* The score the claim gives for a text and its delays
ClaimedTimeScore(text, delays) ==
    LET n == Len(delays)
        sum == SumSeq(delays)
        D == IF n > 0 /\ sum >= 1200 * n /\ sum <= 3400 * n THEN 2000
             ELSE IF n = 0 \/ sum < 500 * n THEN 0 - 2000
             ELSE 0
        V == IF HasVagueTimeReferences(text) THEN 1500 ELSE 0
        P == IF PreciseDatePattern(text) \/ PreciseTimePattern(text) THEN 1500 ELSE 0
        raw == 5000 + D + V - P
    IN  IF raw < 0 THEN 0 ELSE IF raw > Scale THEN Scale ELSE raw

\* C6: analyzeTimePerception returns clamp01(0.5 + D + V - P) with D from the
\* mean delay (0 for no delays), V from the vague phrases and P from the
\* precise patterns; [2000,2200,2100] with 'last week' gives 0.85, [100,120]
\* with 'Meeting at 14:30 on 12/05/2024' gives 0.15, no delays subtract 0.2.
C6_TimePerceptionScore ==
    unitOut # Nothing =>
        /\ unitOut.score = ClaimedTimeScore(unitIn.text, unitIn.responseDelays)
        /\ (unitIn.text = TextLastWeek /\ unitIn.responseDelays = <<2000, 2200, 2100>>) =>
              unitOut.score = 8500
        /\ (unitIn.text = TextMeeting /\ unitIn.responseDelays = <<100, 120>>) =>
              unitOut.score = 1500
        /\ (unitIn.text = TextPlain /\ unitIn.responseDelays = <<>>) => unitOut.score = 3000

C6_Witness_LastWeek ==
    /\ unitOut # Nothing
    /\ unitIn.text = TextLastWeek
    /\ unitIn.responseDelays = <<2000, 2200, 2100>>
    /\ unitOut.score = 8500

\* The request carried no text, or the empty string
NoText == request.text.kind = "missing" \/ request.text = StringText(<<>>)

\* C7: a request with missing or empty text is answered 400 'Text is
\* required'; no scorer runs, no completion request is issued, and nothing is
\* written to the durable table or to the in-memory map.
C7_EmptyTextRejected ==
    (pc # "idle" /\ NoText) =>
        /\ pc = "responded"
        /\ response = [status |-> 400, body |-> [error |-> "Text is required"]]
        /\ invoked = {}
        /\ \A d \in LLMDimensions : sent[d] = 0 /\ chat[d] = "idle"
        /\ analysis_results = <<>>
        /\ DOMAIN mockAnalysisResults = {}

C7_Witness_EmptyString ==
    pc = "responded" /\ request.text = StringText(<<>>) /\ response.status = 400

\* The request's text is a non-empty string of white space only
WhitespaceOnly ==
    /\ request.text.kind = "string"
    /\ request.text.val # <<>>
    /\ \A i \in 1..Len(request.text.val) : request.text.val[i] \in Spaces

\* C8: a request with whitespace-only text is rejected before
\* analyzeTextStructure or any scorer is invoked.
C8_WhitespaceRejected ==
    (pc # "idle" /\ WhitespaceOnly) =>
        /\ invoked = {}
        /\ pc = "responded"
        /\ response.status = 400

\* The result of this request is held by the in-memory map under its session
InMemory ==
    /\ request.sessionId \in DOMAIN mockAnalysisResults
    /\ \E k \in 1..Len(mockAnalysisResults[request.sessionId]) :
          mockAnalysisResults[request.sessionId][k] =
              ResultRow(request, local, results, totals)

\* C9: when the request carries a sessionId and the write to the durable
\* table fails, by a throw or by a returned error, the result is in the
\* in-memory map under that sessionId when the response is sent.
C9_FailedWriteFallsBack ==
    (Reported /\ request.sessionId # NoSession /\ inserted \in {"error", "throws"}) => InMemory

\* C10: the response does not depend on the durable store: with or without a
\* sessionId, and however the insert settles, the handler answers 200 with
\* the report of the results it held before the insert.
C10_ResponseIgnoresStore ==
    (pc = "responded" /\ totals # Nothing) =>
        /\ response = [status |-> 200, body |-> Report(local, results, Totals(local, results))]
        /\ inserted \in {"none", "stored", "error", "throws"}
        /\ local = LocalScores(request.text.val)

C10_Witness_InsertThrew == Reported /\ inserted = "throws" /\ request.sessionId = "s1"

\* A GET /api/sessions?id=<id> request has just been answered
ReadOf(id) ==
    /\ "route" \in DOMAIN request
    /\ request.route = "GET /api/sessions"
    /\ request.id = id

\* C11: for an id obtained from POST /api/sessions, once an analyze request
\* carrying the id has returned a report, GET /api/sessions?id=<id> answers 200
\* with that report among its analysisResults, however the store behaved
\* during the three requests; and the 404 answer is given only for an id no
\* session was created under.
\* Violated: a session of the table reads as 404 when its select fails.
C11_ReadAfterWrite ==
    \A id \in DbIds \cup Uuids \cup UnknownIds :
        ReadOf(id) =>
            /\ \A row \in returned :
                  (row.session_id = id /\ id \in sessions \cup DOMAIN mockSessions) =>
                      /\ response.status = 200
                      /\ \E i \in DOMAIN response.body.analysisResults :
                            response.body.analysisResults[i] = row
            /\ response.status = 404 => id \notin sessions \cup DOMAIN mockSessions

C13_EntriesByDimension ==
    /\ \A d \in LLMDimensions : chat[d] = "settled" => results[d] = JudgeResult(d, settled[d])
    /\ Reported =>
          LET f == response.body.innovationFeatures
          IN  /\ \A d \in LLMDimensions :
                    /\ f[d] = JudgeResult(d, settled[d])
                    /\ f[d].humanVsAI = HumanVsAI(d)
              /\ f["timePerception"] =
                    TimePerceptionResult(request.text.val, request.responseDelays)
              /\ f["overallScore"] =
                    IF \E d \in Dimensions : IsNaN(f[d].score) THEN NaN
                    ELSE (20 * f["semanticElasticity"].score
                          + 20 * f["emotionalExpression"].score
                          + 15 * f["referenceAbility"].score
                          + 15 * f["ambiguityHandling"].score
                          + 15 * f["creativeThinking"].score
                          + 15 * f["timePerception"].score) \div 100

C13_Witness_MixedOutcomes ==
    /\ Reported
    /\ settled["semanticElasticity"] = ChatError
    /\ settled["emotionalExpression"] = ChatReply(<<ReplyScored>>)
    /\ settled["referenceAbility"] = ChatReply(<<ReplyPlain>>)
    /\ settled["creativeThinking"] = ChatReply(<<ReplyScored>>)
    /\ response.body.innovationFeatures["semanticElasticity"].score = 5000
    /\ response.body.innovationFeatures["emotionalExpression"].score = 9000
    /\ response.body.innovationFeatures["creativeThinking"].score = 9000

\* C14: each LLM-backed judge issues exactly one completion request per
\* analyze request, never a second one after a failure, whose result is the
\* fallback; the time-perception judge issues none.
C14_NoRetries ==
    /\ \A d \in LLMDimensions : sent[d] <= 1 /\ (chat[d] # "idle" <=> sent[d] = 1)
    /\ sent["timePerception"] = 0
    /\ \A d \in LLMDimensions :
          CallFailed(d) =>
              /\ sent[d] = 1
              /\ results[d].score = 5000
              /\ results[d].analysis = <<"Error analyzing", DimensionText(d)>>
    /\ (pc = "responded" /\ totals # Nothing) => \A d \in LLMDimensions : sent[d] = 1

C14_Witness_AllFailedOnce ==
    /\ Reported
    /\ \A d \in LLMDimensions : settled[d] = ChatError /\ sent[d] = 1
    /\ results["timePerception"] # Nothing

\* C15: calculateEmotionalFluctuation and calculateCreativeDivergence return
\* exactly 0 for a segment list of length 0 or 1, whatever the segment.
C15_FewSegmentsScoreZero ==
    (unitOut # Nothing /\ Len(unitIn.textSegments) \in {0, 1}) =>
        /\ unitOut.emotionalFluctuation = 0
        /\ unitOut.creativeDivergence = 0

C15_Witness_OneTokenlessSegment ==
    /\ unitOut # Nothing
    /\ unitIn.textSegments = <<<<"dash150">>>>
    /\ unitOut.creativeDivergence = 0
    /\ unitOut.emotionalFluctuation = 0

\* C16: analyzeTextStructure guards its divisions: with zero word tokens
\* lexicalDiversity is 0, and neither lexicalDiversity nor avgSentenceLength
\* is NaN for any text the handler lets through.
C16_TextStructureGuarded ==
    local # Nothing =>
        /\ ~IsNaN(local.textStructure.lexicalDiversity)
        /\ ~IsNaN(local.textStructure.avgSentenceLength)
        /\ local.textStructure.tokenCount = 0 => local.textStructure.lexicalDiversity = 0

\* C17: every segment the handler builds from a sentence list is at most 200
\* characters long.
C17_SegmentsWithinLimit ==
    unitOut # Nothing =>
        \A i \in 1..Len(unitOut.textSegments) : StrLen(unitOut.textSegments[i]) <= 200

\* Every key of the old map of lists is kept and its list is extended at the end
Grows(old, new) ==
    \A k \in DOMAIN old :
        /\ k \in DOMAIN new
        /\ Len(old[k]) =< Len(new[k])
        /\ SubSeq(new[k], 1, Len(old[k])) = old[k]

\* C18: no step of any handler deletes a key of mockSessions, mockInteractions
\* or mockAnalysisResults, removes a record from them or changes a record
\* already there.
C18_MapsAppendOnly ==
    [][/\ \A k \in DOMAIN mockSessions :
             k \in DOMAIN mockSessions' /\ mockSessions'[k] = mockSessions[k]
       /\ Grows(mockInteractions, mockInteractions')
       /\ Grows(mockAnalysisResults, mockAnalysisResults')]_vars

\* The fallback has pushed a second, different interaction under a session
\* kept in mockSessions
C18_Witness_SecondPush ==
    \E k \in DOMAIN mockSessions :
        /\ k \in DOMAIN mockInteractions
        /\ Len(mockInteractions[k]) = 2
        /\ mockInteractions[k][1] # mockInteractions[k][2]

\* f(x) = 1 - x^1.5 as the claim states it
ClaimedInverse(x) == Scale - (x * ISqrt(x * Scale)) \div Scale

\* C19: AISimilarityScoring.calculateOverallScore(v, e, c) is
\* 0.3*f(v) + 0.4*f(e) + 0.3*f(c) with f(x) = 1 - x^1.5: 1 at (0,0,0), 0 at
\* (1,1,1), within [0,1] on [0,1]^3, and non-increasing in each input.
C19_InvertedAggregate ==
    unitOut # Nothing =>
        LET v == unitIn.vocabularyComplexity
            e == unitIn.emotionalFluctuation
            c == unitIn.creativeDivergence
        IN  /\ unitOut.score = (ClaimedInverse(v) * 30) \div 100
                               + (ClaimedInverse(e) * 40) \div 100
                               + (ClaimedInverse(c) * 30) \div 100
            /\ InUnit(unitOut.score)
            /\ (v = 0 /\ e = 0 /\ c = 0) => unitOut.score = Scale
            /\ (v = Scale /\ e = Scale /\ c = Scale) => unitOut.score = 0
            /\ \A x \in Grid :
                  /\ x >= v => aiCalculateOverallScore(x, e, c) <= unitOut.score
                  /\ x >= e => aiCalculateOverallScore(v, x, c) <= unitOut.score
                  /\ x >= c => aiCalculateOverallScore(v, e, x) <= unitOut.score

C19_Witness_Quarter ==
    /\ unitOut # Nothing
    /\ unitIn.vocabularyComplexity = 2500
    /\ unitIn.emotionalFluctuation = 2500
    /\ unitIn.creativeDivergence = 2500
    /\ unitOut.score = 8750

\* The least and the greatest of six scores
LeastScore(scores) == CHOOSE x \in {scores[d] : d \in DOMAIN scores} : \A y \in {scores[d] : d \in DOMAIN scores} : x <= y

GreatestScore(scores) == CHOOSE x \in {scores[d] : d \in DOMAIN scores} : \A y \in {scores[d] : d \in DOMAIN scores} : x >= y

\* C20: InnovationFeatureMatrix.calculateOverallScore is the weighted sum with
\* weights 0.20, 0.20, 0.15, 0.15, 0.15, 0.15, which sum to 1: six equal
\* scores s give s, the result lies between the least and the greatest
\* score, and it is non-decreasing in each score.
C20_WeightedSum ==
    /\ 20 + 20 + 15 + 15 + 15 + 15 = 100
    /\ unitOut # Nothing =>
          LET sc == unitIn.scores
          IN  /\ unitOut.score =
                    (20 * sc["semanticElasticity"] + 20 * sc["emotionalExpression"]
                     + 15 * sc["referenceAbility"] + 15 * sc["ambiguityHandling"]
                     + 15 * sc["creativeThinking"] + 15 * sc["timePerception"]) \div 100
              /\ (\A d \in Dimensions : sc[d] = sc["timePerception"]) =>
                    unitOut.score = sc["timePerception"]
              /\ LeastScore(sc) <= unitOut.score
              /\ unitOut.score <= GreatestScore(sc)
              /\ \A d \in Dimensions : \A x \in WeightGrid :
                    x >= sc[d] =>
                        innovationCalculateOverallScore([sc EXCEPT ![d] = x]) >= unitOut.score

C20_Witness_Weights ==
    /\ unitOut # Nothing
    /\ unitIn.scores["semanticElasticity"] = Scale
    /\ \A d \in Dimensions \ {"semanticElasticity"} : unitIn.scores[d] = 0
    /\ unitOut.score = 2000

\* C21: for every reply of a successful call the judge returns the reply as
\* analysis and a score in [0,1] that is never NaN: 0.5 without a match of
\* 'score: <number>', else the matched number clamped to [0,1].
\* Violated by the reply 'score.', whose score is NaN.
C21_JudgeScoreInUnit ==
    ("reply" \in DOMAIN unitIn /\ unitOut # Nothing) =>
        /\ unitOut.analysis = unitIn.reply
        /\ InUnit(unitOut.score)
        /\ ScoreMatch(unitIn.reply) = <<>> => unitOut.score = 5000

\* The top-3 term set of a segment
TermSet(segment) == Range(SegmentConcepts(segment))

\* C22: calculateCreativeDivergence on two or more segments is a number in
\* [0,1] for every segment list, also when both segments of a pair yield no
\* terms, and is 0 when every consecutive pair has identical term sets.
\* Violated by two segments without terms, whose score is NaN.
C22_DivergenceInUnit ==
    ("textSegments" \in DOMAIN unitIn /\ unitOut # Nothing /\ Len(unitIn.textSegments) >= 2) =>
        /\ InUnit(unitOut.creativeDivergence)
        /\ (\A i \in 1..(Len(unitIn.textSegments) - 1) :
                TermSet(unitIn.textSegments[i]) = TermSet(unitIn.textSegments[i + 1]))
              => unitOut.creativeDivergence = 0

\* Every delay of the list lies in [100, 10000]
DelaysInRange(delays) == \A i \in 1..Len(delays) : delays[i] >= 100 /\ delays[i] <= 10000

\* C23: in QuestionCard every recorded delay is an inter-keystroke interval in
\* [100, 10000]; the first key press after mount or after a submit records
\* nothing; an out-of-range interval is dropped but still moves the last-key
\* time; an accepted submit hands the recorded delays over once and empties
\* the list.
C23_DelaysFiltered ==
    [][/\ DelaysInRange(card'.responseDelays)
       /\ \A i \in 1..Len(handed') : DelaysInRange(handed'[i].responseDelays)
       /\ presses' # presses =>
             /\ card'.lastKeyTime = TimeAt(now')
             /\ card.lastKeyTime = NullTime => card'.responseDelays = card.responseDelays
             /\ card.lastKeyTime # NullTime =>
                   card'.responseDelays =
                      IF now' - card.lastKeyTime.val \in 100..10000
                      THEN Append(card.responseDelays, now' - card.lastKeyTime.val)
                      ELSE card.responseDelays
       /\ handed' # handed =>
             /\ handed' = Append(handed, [response |-> card.response,
                                          responseDelays |-> card.responseDelays])
             /\ card'.responseDelays = <<>>
             /\ card'.lastKeyTime = NullTime]_vars

\* Three key presses, then the submit: of the two intervals one was dropped
\* and one was handed over, and the card is back in its initial state
C23_Witness_DroppedThenKept ==
    /\ Len(handed) = 1
    /\ presses = 3
    /\ Len(handed[1].responseDelays) = 1
    /\ card = CardMounted

\* The three classifications a report can carry
Classifications == {"Human", "AI", "Ambiguous"}

\* C24: the classification of every report returned by POST /api/analyze, and
\* of every row written to the table or to the in-memory map, is 'Human', 'AI'
\* or 'Ambiguous', never the placeholder 'Undetermined', also when
\* overallHumanLikenessScore is NaN.
C24_ClassificationDetermined ==
    /\ Reported => response.body.classification \in Classifications
    /\ \A i \in DOMAIN analysis_results :
          analysis_results[i].classification \in Classifications
    /\ \A k \in DOMAIN mockAnalysisResults : \A i \in DOMAIN mockAnalysisResults[k] :
          mockAnalysisResults[k][i].classification \in Classifications

\* A report whose overall score is NaN was returned and its row was stored
C24_Witness_NaNStored ==
    /\ Reported
    /\ IsNaN(response.body.overallHumanLikenessScore)
    /\ response.body.classification = "Ambiguous"
    /\ Len(analysis_results) = 1
    /\ analysis_results[1].classification = "Ambiguous"

\* The values 0.5 + D + V - P
TimeScoreValues ==
    {5000 + D + V - P : D \in {0 - 2000, 0, 2000}, V \in {0, 1500}, P \in {0, 1500}}

RECURSIVE JoinWithSpace(_)
\* The strings of a list joined by single spaces
JoinWithSpace(strings) ==
    IF strings = <<>> THEN <<>>
    ELSE IF Len(strings) = 1 THEN Head(strings)
    ELSE Head(strings) \o <<" ">> \o JoinWithSpace(Tail(strings))

\* C26: the segments the handler builds from a sentence list, read in order,
\* hold every sentence exactly once and in the original order, and no segment
\* is the empty string, also when the first sentence alone is longer than 200
\* characters.
\* Violated by a first sentence longer than 200 characters: an empty segment precedes it.
C26_SegmentsKeepSentences ==
    ("sentences" \in DOMAIN unitIn /\ unitOut # Nothing) =>
        /\ \A i \in 1..Len(unitOut.textSegments) : unitOut.textSegments[i] # <<>>
        /\ JoinWithSpace(unitOut.textSegments) = JoinWithSpace(unitIn.sentences)

\* The in-memory map a kind of request falls back to
MockMapOf(kind, analyses, questions) == IF kind = "analyze" THEN analyses ELSE questions

\* The requests of a kind for a session whose write has fallen back to memory
FellBack(flights, kind, sessionId) ==
    {w \in Writers : /\ flights[w].pc = "done"
                     /\ flights[w].how = "throws"
                     /\ flights[w].kind = kind
                     /\ flights[w].sessionId = sessionId}

\* C27: when several analyze or question requests for the same sessionId fall
\* back to the in-memory store in any interleaving, each one appends exactly
\* one record to the list of its session and no record is lost or overwritten.
C27_FallbacksNotInterleaved ==
    [][/\ \A w \in Writers :
             (inflight[w].pc = "awaiting" /\ inflight'[w].pc = "done"
                 /\ inflight'[w].how = "throws") =>
                 LET k == inflight[w].sessionId
                     old == MockMapOf(inflight[w].kind, mockAnalysisResults, mockInteractions)
                     new == MockMapOf(inflight[w].kind, mockAnalysisResults', mockInteractions')
                 IN  /\ k \in DOMAIN new
                     /\ new[k] = Append(MapGetOr(old, k, <<>>), inflight[w].row)
                     /\ \A j \in DOMAIN old : j # k => (j \in DOMAIN new /\ new[j] = old[j])
       /\ \A kind \in {"analyze", "question"}, k \in DbIds \cup Uuids :
             LET list == MapGetOr(MockMapOf(kind, mockAnalysisResults', mockInteractions'),
                                  k, <<>>)
             IN  /\ Len(list) = Cardinality(FellBack(inflight', kind, k))
                 /\ \A w \in FellBack(inflight', kind, k) :
                       \E i \in 1..Len(list) : list[i] = inflight'[w].row]_vars

\* Two analyze requests for the same session with different texts have both
\* fallen back, and the list of the session holds two records
C27_Witness_TwoFellBack ==
    /\ inflight[1].kind = "analyze" /\ inflight[2].kind = "analyze"
    /\ inflight[1].sessionId = "u1" /\ inflight[2].sessionId = "u1"
    /\ inflight[1].row # inflight[2].row
    /\ FellBack(inflight, "analyze", "u1") = {1, 2}
    /\ Len(mockAnalysisResults["u1"]) = 2

\* C28: POST /api/sessions answers with a sessionId however the store
\* behaves: the id of the new row when the insert succeeds, otherwise (error,
\* throw, no row) a fresh id that is in mockSessions when the response is
\* sent; GET /api/sessions?id=<that id> then answers with the session, not
\* with 404, however its selects settle.
C28_SessionAlwaysCreated ==
    [][/\ request'.route = "POST /api/sessions" =>
             /\ response'.status = 200
             /\ IF sessions' # sessions
                THEN /\ response'.body.sessionId \in sessions' \ sessions
                     /\ mockSessions' = mockSessions
                ELSE /\ response'.body.sessionId \notin DOMAIN mockSessions
                     /\ response'.body.sessionId \in DOMAIN mockSessions'
                     /\ mockSessions'[response'.body.sessionId].id = response'.body.sessionId
       /\ (request'.route = "GET /api/sessions" /\ request'.id \in DOMAIN mockSessions') =>
             /\ response'.status = 200
             /\ response'.body.session = mockSessions'[request'.id]]_vars

\* A session was created while the store failed and was then read back
C28_Witness_FallbackRead ==
    /\ ReadOf("u1")
    /\ sessions = {}
    /\ response.status = 200
    /\ response.body.session = [id |-> "u1"]

\* handleSubmitResponse is called in this step
SubmitCalled == fetching'.call = "submit" /\ fetching.awaiting = "none" /\ fetching'.awaiting # "none"

\* handleSubmitResponse completes in this step
SubmitCompleted == fetching.call = "submit" /\ fetching.awaiting # "none" /\ fetching'.awaiting = "none"

\* C29: in the test page questionDepth is always 1, 2 or 3; a submit at a
\* depth below 3 requests a follow-up question and the depth grows by exactly
\* 1 only if that request succeeds; a submit at depth 3 requests the analysis
\* of that response's text and delays and leaves the depth alone;
\* /api/analyze is never requested below depth 3; a failed request leaves the
\* depth alone; and when a submit completes isLoading and isAnalyzing are
\* both false.
C29_DepthAndFlags ==
    [][/\ page'.questionDepth \in {1, 2, 3}
       /\ page'.isLoading \/ fetching'.awaiting = "none"
       /\ SubmitCalled =>
             /\ page'.questionDepth = page.questionDepth
             /\ page.questionDepth < 3 =>
                   /\ fetching'.route = "POST /api/questions"
                   /\ fetching'.body.depth = page.questionDepth
             /\ page.questionDepth = 3 =>
                   /\ fetching'.route = "POST /api/analyze"
                   /\ \E userResponse \in PageResponses, responseDelays \in PageDelays :
                         /\ handleSubmitResponse(userResponse, responseDelays)
                         /\ fetching'.body.text = userResponse
                         /\ fetching'.body.responseDelays = responseDelays
       /\ (fetching'.route = "POST /api/analyze" /\ fetching'.awaiting # "none") =>
             page'.questionDepth = 3
       /\ SubmitCompleted =>
             /\ ~page'.isLoading
             /\ ~page'.isAnalyzing
             /\ page'.questionDepth =
                   IF fetching.route = "POST /api/questions" /\ fetching'.ok
                   THEN page.questionDepth + 1 ELSE page.questionDepth]_vars

\* The third response is being analysed after two follow-up questions
C29_Witness_AnalyzingThird ==
    /\ page.questionDepth = 3
    /\ page.isAnalyzing
    /\ fetching.awaiting = "analyze"
    /\ fetching.body.text = "hi"
    /\ fetching.body.responseDelays = <<150>>
    /\ page.currentQuestion = "f1"

\* The accepted text of the answered request yields fewer than two segments
FewSegmentsReported ==
    /\ Reported
    /\ request.text.kind = "string"
    /\ Len(TextSegments(request.text.val)) < 2

\* C30: for an accepted text with fewer than two segments emotionalFluctuation
\* and creativeDivergence are 0, aiSimilarity.overallScore is
\* 0.7 + 0.3 * (1 - vocabularyComplexity^1.5), and overallHumanLikenessScore
\* is at least 0.28 + 0.6 * innovationFeatures.overallScore.
\* Violated by an accepted text without word tokens, whose scores are NaN.
C30_FewSegmentsFloor ==
    FewSegmentsReported =>
        LET ai == response.body.aiSimilarity
        IN  /\ ai.emotionalFluctuation = 0
            /\ ai.creativeDivergence = 0
            /\ ai.overallScore = Add(7000, MulW(invertAIScore(ai.vocabularyComplexity), 30))
            /\ Ge(response.body.overallHumanLikenessScore,
                  2800 + (response.body.innovationFeatures.overallScore * 6) \div 10)

====
